---- MODULE Spec2Model ----
(***************************************************************************)
(* State-machine model of the SGR agent runtime:                           *)
(*   BaseAgent            core/agents/base_agent.py                        *)
(*   SGRResearchAgent     core/agents/sgr_agent.py       (single call)     *)
(*   SGRVampiCodeAgent    core/agents/sgr_vampi_code_agent.py (two call)   *)
(*   tools                core/tools/base.py, core/tools/coding.py         *)
(*   ResearchContext, TokenUsage   core/models.py                          *)
(*                                                                         *)
(* execute() is a coroutine.  A step of the model runs the code from one   *)
(* suspension point (an await that really yields: the LLM stream, a tool   *)
(* that awaits a subprocess or the network) to the next.  The external     *)
(* calls provide_clarification / continue_conversation and the             *)
(* cancellation of the awaiting task can only happen at suspension points  *)
(* or while no execute() is running.                                       *)
(***************************************************************************)
EXTENDS Integers, Sequences, FiniteSets, TLC

\* ------------------------------------------------------------------ bounds
\* Longest file content and longest search text given to EditFileTool.
MaxContentLen == 3
MaxSearchLen == 2
MaxIterationsBound == 2      \* max_iterations is drawn from 1..MaxIterationsBound
IterationCap == 3            \* the model stops starting iterations at this count
MaxCalls == 3                \* calls of execute, provide_clarification and
                             \* continue_conversation made on one agent instance
SmallConversationCap == 5    \* a small max_conversation_messages, so truncation happens
MaxSearchesBound == 1        \* max_searches of the research agent is drawn from 0..MaxSearchesBound
MaxCap == 3                  \* TruncSpec: max_conversation_messages is drawn from 1..MaxCap
MaxAppends == 5              \* TruncSpec: messages appended to one conversation
MaxLen == 6                  \* TruncSpec: the model stops truncating longer conversations
MaxRequests == 3             \* LedgerSpec: usages merged into one ledger
MaxTokens == 1               \* LedgerSpec: thinking tokens of one request are drawn from 0..MaxTokens

\* ------------------------------------------------------- program constants
DefaultMaxConversationMessages == 80
CodingMaxSearches == 0

\* ------------------------------------------------------------ enumerations
INITED == "inited"
RESEARCHING == "researching"
WAITING_FOR_CLARIFICATION == "waiting_for_clarification"
COMPLETED == "completed"
ERROR == "error"
FAILED == "failed"

AgentStatesEnum ==
    {INITED, RESEARCHING, WAITING_FOR_CLARIFICATION, COMPLETED, ERROR, FAILED}

FINISH_STATES == {COMPLETED, FAILED, ERROR}

Variants == {"research", "coding"}

\* ------------------------------------------------------------------- tools
system_agent_tools == {"FinalAnswerTool", "ReasoningTool"}

coding_agent_tools ==
    {"ReadFileTool", "WriteFileTool", "EditFileTool", "GrepTool", "RunCommandTool",
     "ListDirectoryTool", "FindFilesTool", "WebSearchTool", "ExtractPageContentTool"}

\* core/tools/research.py is not part of the sources; the catalogue is the one
\* the agents import from it.
research_agent_tools ==
    {"ClarificationTool", "CreateReportTool", "WebSearchTool", "ExtractPageContentTool"}

\* A tool class handed in through the toolkit parameter that does not override
\* __call__: BaseTool.__call__ raises NotImplementedError.
user_toolkit == {"CustomTool"}

\* Tools whose __call__ really suspends (awaits a subprocess or the network).
SuspendingTools ==
    {"GrepTool", "RunCommandTool", "FindFilesTool", "WebSearchTool",
     "ExtractPageContentTool"}

NoTool == [name |-> "none", status |-> "none", answer |-> "none"]

PlainTool(n) == [name |-> n, status |-> "none", answer |-> "none"]

FinalAnswerTool(st, ans) == [name |-> "FinalAnswerTool", status |-> st, answer |-> ans]

\* ---------------------------------------------------------------- messages
Msg(r, k, c, m) == [role |-> r, kind |-> k, call |-> c, clar |-> m]

TaskMsg == Msg("user", "task", 0, FALSE)
ClarificationMsg == Msg("user", "clarification", 0, TRUE)
UserTurnMsg == Msg("user", "user_turn", 0, FALSE)
NoticeMsg == Msg("system", "notice", 0, FALSE)

Max(a, b) == IF a >= b THEN a ELSE b
Min(S) == CHOOSE x \in S : \A y \in S : x <= y

VARIABLES
    variant, max_iterations, max_searches, max_conversation_messages, usage_place,
    state, iteration, searches_used, clarifications_used, clarification_received,
    execution_result,
    conversation, log, token_usage, request_counter, continuous_mode,
    pc, action_tool,
    runs, exit, finalized, raised, text_fallback, last,
    usage_calls, reported,
    tools_list, schema, function, serialized,
    fs, proc, tool_input, observation,
    llm_base_url, provider_type, request,
    system_prompt_file, system_prompt,
    max_retries, attempt, last_exception, responses, retry_result,
    fd_items, fd_i, fd_j, duplicates, returned,
    chunks, last_chunk_usage, completed,
    tool_parameters, sent_parameters

cfgVars == <<variant, max_iterations, max_searches, max_conversation_messages,
             usage_place>>
ctxVars == <<state, iteration, searches_used, clarifications_used,
             clarification_received, execution_result>>
dataVars == <<conversation, log, token_usage, request_counter, continuous_mode>>
ctlVars == <<pc, action_tool>>
histVars == <<runs, exit, finalized, raised, text_fallback, last>>
ledgerVars == <<usage_calls, reported>>
schemaVars == <<tools_list, schema, function, serialized>>
toolVars == <<fs, proc, tool_input, observation>>
providerVars == <<llm_base_url, provider_type, request>>
configVars == <<system_prompt_file, system_prompt>>
retryVars == <<max_retries, attempt, last_exception, responses, retry_result>>
dupVars == <<fd_items, fd_i, fd_j, duplicates, returned>>
streamVars == <<chunks, last_chunk_usage, completed>>
stripVars == <<tool_parameters, sent_parameters>>
extVars == <<configVars, retryVars, dupVars, streamVars, stripVars>>
auxVars == <<schemaVars, toolVars, providerVars, extVars>>
agentVars == <<cfgVars, ctxVars, dataVars, ctlVars, histVars, ledgerVars>>
vars == <<agentVars, auxVars>>
\* What the actions outside the agent loop leave alone besides their own group.
restVars == <<cfgVars, ctxVars, dataVars, ctlVars, runs, exit, finalized, raised,
              text_fallback, ledgerVars, schemaVars, toolVars, providerVars>>
exceptConfig == <<restVars, retryVars, dupVars, streamVars, stripVars>>
exceptRetry == <<restVars, configVars, dupVars, streamVars, stripVars>>
exceptDup == <<restVars, configVars, retryVars, streamVars, stripVars>>
exceptStrip == <<cfgVars, ctxVars, dataVars, ctlVars, runs, exit, finalized, raised,
                 text_fallback, ledgerVars, schemaVars, toolVars, configVars,
                 retryVars, dupVars, streamVars>>

\* A dict without keys.
EmptyDict == [k \in {} |-> "none"]

\* No action schema was built and no action chosen.
NoFunction == [cls |-> "none", tool_name_discriminator |-> "none", own |-> EmptyDict]

SchemaIdle ==
    /\ tools_list = {}
    /\ schema = EmptyDict
    /\ function = NoFunction
    /\ serialized = {}

\* No tool was executed.
NoObservation == [kind |-> "none", text |-> "none"]

NoInput == [name |-> "none", search_text |-> <<>>, replace_text |-> <<>>,
            content |-> <<>>]

ToolIdle ==
    /\ fs = [path |-> "missing", content |-> <<>>]
    /\ proc = "exit0_silent"
    /\ tool_input = NoInput
    /\ observation = NoObservation

\* No request was sent.
NoRequest == [phase |-> "none", base_url |-> <<>>, provider |-> "none",
              extra_body |-> {}, stream_options |-> {}, schema_stripped |-> FALSE]

ProviderIdle ==
    /\ llm_base_url = <<"openai">>
    /\ provider_type = "openai"
    /\ request = NoRequest

\* The agent instances of one process.
Agents == {"coder_a", "coder_b", "researcher"}

\* The configured prompt file and the one of the coding agent.
DefaultPromptFile == "system_prompt.txt"
CodePromptFile == "code_system_prompt.txt"

\* No instance has built a request context.
ConfigIdle ==
    /\ system_prompt_file = DefaultPromptFile
    /\ system_prompt = [a \in Agents |-> "none"]

\* No request was made.
RetryIdle ==
    /\ max_retries = 0
    /\ attempt = 0
    /\ last_exception = "None"
    /\ responses = <<>>
    /\ retry_result = "none"

\* find_duplicates was not called.
DupIdle ==
    /\ fd_items = <<>>
    /\ fd_i = 0
    /\ fd_j = 0
    /\ duplicates = <<>>
    /\ returned = FALSE


\* ------------------------------------------------------- candidate tool sets
\* BaseAgent.__init__ / SGRResearchAgent.__init__ / SGRVampiCodeAgent.__init__
Toolkit(v) ==
    IF v = "coding"
    THEN system_agent_tools \cup coding_agent_tools \cup user_toolkit
    ELSE (system_agent_tools \cup research_agent_tools \cup user_toolkit)
             \ {"ReasoningTool"}

\* SGRResearchAgent._prepare_tools
SGRResearchAgent_prepare_tools(it, maxit, su, ms) ==
    LET tools == IF it >= maxit THEN {"CreateReportTool", "FinalAnswerTool"}
                 ELSE Toolkit("research")
    IN IF su >= ms THEN tools \ {"WebSearchTool"} ELSE tools

\* SGRVampiCodeAgent._prepare_tools (the override has no search-budget branch)
SGRVampiCodeAgent_prepare_tools(it, maxit) ==
    IF it >= maxit THEN {"ReasoningTool", "FinalAnswerTool"} ELSE Toolkit("coding")

\* The candidate set of the current step.
prepare_tools ==
    IF variant = "coding"
    THEN SGRVampiCodeAgent_prepare_tools(iteration, max_iterations)
    ELSE SGRResearchAgent_prepare_tools(iteration, max_iterations,
                                        searches_used, max_searches)

\* Every instance of a tool class the model can emit (FinalAnswerTool.status is
\* Literal[COMPLETED, FAILED, ERROR]).
Instances(n) ==
    IF n = "FinalAnswerTool"
    THEN {FinalAnswerTool(st, "model_answer") : st \in FINISH_STATES}
    ELSE {PlainTool(n)}

\* ------------------------------------------------------------ tool execution
\* Mutant: the final answer leaves the state as it was.
FinalAnswerTool_call_state_kept(tool, st) == st

\* FinalAnswerTool.__call__: context.state = self.status
FinalAnswerTool_call_state(tool, st) == tool.status

\* FinalAnswerTool.__call__: context.execution_result = self.answer
FinalAnswerTool_call_result(tool, res) == tool.answer

\* ReasoningTool.__call__ returns its dump and touches nothing.
ReasoningTool_call_state(tool, st) == st

\* The file and shell tools of coding.py return a string and leave the context alone.
CodingTool_call_state(tool, st) == st

\* Tools of core/tools/research.py, from the specification: a clarification
\* request moves the agent to WAITING_FOR_CLARIFICATION and re-arms the wait
\* primitive, the report tool is final-answer-capable, a search spends one unit
\* of the search budget.
ClarificationTool_call_state(tool, st) == WAITING_FOR_CLARIFICATION

ClarificationTool_call_event(ev) == FALSE

CreateReportTool_call_state(tool, st) == COMPLETED

WebSearchTool_call_searches(su) == su + 1

\* BaseTool.__call__ raises NotImplementedError unless the subclass overrides it.
ToolRaises(tool) == tool.name \in user_toolkit

\* context.state after `await tool(context)` returned.
ToolState(tool, st) ==
    CASE tool.name = "FinalAnswerTool" -> FinalAnswerTool_call_state(tool, st)
      [] tool.name = "ReasoningTool" -> ReasoningTool_call_state(tool, st)
      [] tool.name = "ClarificationTool" -> ClarificationTool_call_state(tool, st)
      [] tool.name = "CreateReportTool" -> CreateReportTool_call_state(tool, st)
      [] OTHER -> CodingTool_call_state(tool, st)

\* A tool class is final-answer-capable when executing any instance of it, from
\* any non-terminal state, leaves the agent in a terminal state.
FinalAnswerCapable(n) ==
    \A tool \in Instances(n) : \A st \in AgentStatesEnum \ FINISH_STATES :
        ~ToolRaises(tool) /\ ToolState(tool, st) \in FINISH_STATES

\* ------------------------------------------------------------- conversation
\* Mutant: the early return tests `<` instead of `<=`.
within_limit_strict(conv, cap) == Len(conv) < cap

\* `if len(self.conversation) <= self.max_conversation_messages: return`
within_limit(conv, cap) == Len(conv) <= cap

\* Mutant: the initial user message is found but not copied.
initial_user_part_dropped(conv) == <<>>

\* `if initial_user_msg: truncated.append(initial_user_msg[1])`: the first
\* message with role user, when there is one.
initial_user_part(conv) ==
    LET users == {i \in 1..Len(conv) : conv[i].role = "user"}
    IN IF users # {} THEN <<conv[Min(users)]>> ELSE <<>>

\* preserve_count: one for the initial user message plus the number of
\* messages whose content matches the clarification marker.
preserve_count(conv) ==
    Len(initial_user_part(conv))
        + Cardinality({i \in 1..Len(conv) : conv[i].clar})

\* recent_messages_count
recent_messages_count(conv, cap) == Max(cap - preserve_count(conv), cap \div 2)

\* `self.conversation[-recent_messages_count:]`; conv[-0:] is the whole list.
recent_messages(conv, n) ==
    IF n = 0 THEN conv ELSE SubSeq(conv, Len(conv) - n + 1, Len(conv))

\* SGRVampiCodeAgent._truncate_conversation on a conversation conv with cap
\* max_conversation_messages.  The clarification messages are counted in
\* preserve_count and never copied.
truncate_conversation(conv, cap) ==
    IF within_limit(conv, cap) THEN conv
    ELSE initial_user_part(conv) \o <<NoticeMsg>>
             \o recent_messages(conv, recent_messages_count(conv, cap))

\* BaseAgent._prepare_context does not touch the conversation; the coding
\* agent's override truncates it first.
prepare_context(v, conv, cap) ==
    IF v = "coding" THEN truncate_conversation(conv, cap) ELSE conv

\* ------------------------------------------------------------- usage ledger
\* A counter the backend left out or set to None (`... or 0` reads it as 0).
None == -1

OrZero(v) == IF v = None THEN 0 ELSE v

\* A usage value handed to add_usage.  form "none" is None, "object" is a
\* CompletionUsage-like object, "dict" a plain dict.  reasoning_tokens is
\* completion_tokens_details.reasoning_tokens, details_cached_tokens is
\* prompt_tokens_details.cached_tokens; thinking_tokens and cached_tokens are the
\* flat keys that only the dict branch reads.  cost is the `cost` attribute or
\* key; model_extra is "absent" when the value has no such attribute (a dict, a
\* plain object), "none" when the attribute is None (a pydantic model that does
\* not allow extra fields), "empty" for {} and "cost" for a dict that holds
\* extra_cost under `cost`.  A new Usage reports no cost.
Usage(form, p, c, tot, think, reason, cached, dcached) ==
    [present |-> form # "none", form |-> form,
     prompt_tokens |-> p, completion_tokens |-> c, total_tokens |-> tot,
     thinking_tokens |-> think, reasoning_tokens |-> reason,
     cached_tokens |-> cached, details_cached_tokens |-> dcached,
     cost |-> None,
     model_extra |-> IF form = "object" THEN "empty" ELSE "absent",
     extra_cost |-> None]

NoUsage == Usage("none", 0, 0, 0, None, None, None, None)

SomeUsage == Usage("object", 2, 1, 3, None, None, None, None)

\* No request was completed.
NoCompleted == [request_num |-> 0, completion_usage |-> NoUsage, chunks |-> <<>>,
                calls_before |-> 0]

\* No stream was read.
StreamIdle ==
    /\ chunks = <<>>
    /\ last_chunk_usage = NoUsage
    /\ completed = NoCompleted

\* JSON values: a string, a dict (keys to values) and a list.
Leaf(text) == [tag |-> "leaf", text |-> text]
Dict(items) == [tag |-> "dict", items |-> items]
List(elems) == [tag |-> "list", elems |-> elems]

\* No tool schema was built or sent.
StripIdle ==
    /\ tool_parameters = Leaf("none")
    /\ sent_parameters = Leaf("none")

ExtIdle == ConfigIdle /\ RetryIdle /\ DupIdle /\ StreamIdle /\ StripIdle

AuxIdle == SchemaIdle /\ ToolIdle /\ ProviderIdle /\ ExtIdle

\* Where the backend puts the usage of a completed request: on the terminal
\* completion object, only on the last streamed fragment, or nowhere.
UsagePlaces == {"completion", "chunk", "none"}

\* `if completion.usage: ... elif last_chunk_usage: ...`
RequestUsage(place) == IF place = "none" THEN NoUsage ELSE SomeUsage

\* Mutant: the thinking total is overwritten by the request's value.
add_thinking_overwrite(total, usage) ==
    IF usage.form = "dict"
    THEN OrZero(usage.thinking_tokens) + OrZero(usage.reasoning_tokens)
    ELSE OrZero(usage.reasoning_tokens)

\* `self.thinking_tokens += ...`: the object branch reads the nested detail,
\* the dict branch adds the flat key and then the nested detail.
add_thinking(total, usage) ==
    IF usage.form = "dict"
    THEN total + OrZero(usage.thinking_tokens) + OrZero(usage.reasoning_tokens)
    ELSE total + OrZero(usage.reasoning_tokens)

\* `self.cached_tokens += ...`
add_cached(total, usage) ==
    IF usage.form = "dict"
    THEN total + OrZero(usage.cached_tokens) + OrZero(usage.details_cached_tokens)
    ELSE total + OrZero(usage.details_cached_tokens)

\* `cost_val = getattr(usage, 'cost', None)`, then
\* `usage.model_extra.get('cost')` when the attribute model_extra exists; the
\* dict branch reads usage.get('cost').  (The further look into __dict__ finds
\* what getattr found.)
cost_val(usage) ==
    IF usage.cost # None THEN usage.cost
    ELSE IF usage.form = "object" /\ usage.model_extra = "cost" THEN usage.extra_cost
    ELSE None

\* `usage.model_extra.get('cost')` on a model_extra that is None raises
\* AttributeError; nothing in add_usage catches it.
add_usage_raises(usage) ==
    /\ usage.present
    /\ usage.form = "object"
    /\ usage.cost = None
    /\ usage.model_extra = "none"

\* `if cost_val is not None: self.cost += float(cost_val)`; costs are counted
\* in millionths of the currency unit.
add_cost(total, usage) ==
    IF add_usage_raises(usage) \/ cost_val(usage) = None THEN total
    ELSE total + cost_val(usage)

\* TokenUsage.add_usage: the ledger it leaves (when the cost extraction raises,
\* the token counters were added before).
add_usage(tu, usage) ==
    IF ~usage.present THEN tu
    ELSE [tu EXCEPT !.prompt_tokens = @ + OrZero(usage.prompt_tokens),
                    !.completion_tokens = @ + OrZero(usage.completion_tokens),
                    !.total_tokens = @ + OrZero(usage.total_tokens),
                    !.thinking_tokens = add_thinking(@, usage),
                    !.cached_tokens = add_cached(@, usage),
                    !.cost = add_cost(@, usage)]

\* Mutant: the request is not stored.
add_request_detail_skipped(tu, request_num, usage) == tu

\* TokenUsage.add_request_detail
add_request_detail(tu, request_num, usage) ==
    [tu EXCEPT !.request_details =
        Append(@, [request_num |-> request_num, usage |-> usage.present])]

EmptyTokenUsage == [prompt_tokens |-> 0, completion_tokens |-> 0, total_tokens |-> 0,
                    thinking_tokens |-> 0, cached_tokens |-> 0, cost |-> 0,
                    request_details |-> <<>>]

\* The arguments of the add_usage calls made on the ledger so far; the agents
\* call it only when the request carried a usage.
record_usage(calls, usage) == IF usage.present THEN Append(calls, usage) ELSE calls

\* Mutant: to_dict reports the accumulated total as it is.
to_dict_total_raw(tu) == tu.total_tokens

\* TokenUsage.to_dict: final_total
to_dict_total(tu) ==
    LET calculated_total == tu.prompt_tokens + tu.completion_tokens
    IN IF tu.thinking_tokens > 0
       THEN IF tu.total_tokens = calculated_total
            THEN tu.total_tokens + tu.thinking_tokens
            ELSE IF tu.total_tokens < calculated_total + tu.thinking_tokens
                 THEN calculated_total + tu.thinking_tokens
                 ELSE tu.total_tokens
       ELSE tu.total_tokens

\* TokenUsage.to_dict
to_dict(tu) ==
    [reported |-> TRUE,
     prompt_tokens |-> tu.prompt_tokens,
     completion_tokens |-> tu.completion_tokens,
     total_tokens |-> to_dict_total(tu),
     thinking_tokens |-> tu.thinking_tokens,
     cached_tokens |-> tu.cached_tokens,
     cost |-> tu.cost,
     request_details |-> tu.request_details]

\* No usage dict was handed to streaming_generator.finish by the current run.
NotReported ==
    [reported |-> FALSE, prompt_tokens |-> 0, completion_tokens |-> 0,
     total_tokens |-> 0, thinking_tokens |-> 0, cached_tokens |-> 0,
     cost |-> None, request_details |-> <<>>]

\* BenchmarkRunner._run_with_sgr_agent: result.total_tokens computed from the
\* usage dict that arrived with the stream.
runner_total_tokens(usage_data) ==
    LET api_total == usage_data.total_tokens
        calculated_total == usage_data.prompt_tokens + usage_data.completion_tokens
        thinking == usage_data.thinking_tokens
    IN IF api_total > 0 /\ thinking > 0
       THEN IF api_total < calculated_total + thinking
            THEN api_total + thinking
            ELSE api_total
       ELSE IF api_total > 0 THEN api_total
            ELSE calculated_total + thinking

\* Per-model pricing handed to the benchmark (price per million tokens).
input_price_per_million == 1
output_price_per_million == 2

\* BaseProvider.calculate_cost, in millionths of the currency unit.
calculate_cost(prompt_tokens, completion_tokens) ==
    prompt_tokens * input_price_per_million
        + completion_tokens * output_price_per_million

\* BenchmarkRunner._run_with_sgr_agent: result.cost_usd computed from the
\* usage dict that arrived with the stream.
runner_cost_usd(usage_data) ==
    IF usage_data.cost # None THEN usage_data.cost
    ELSE calculate_cost(usage_data.prompt_tokens,
                        usage_data.completion_tokens + usage_data.thinking_tokens)

\* BaseAgent._log_reasoning / _log_tool_execution
\* Mutant: the entries are numbered downwards.
LogEntry_counting_down(step, type) == [step_number |-> 0 - step, step_type |-> type]

LogEntry(step, type) == [step_number |-> step, step_type |-> type]

\* ------------------------------------------------------------------ execute
\* Mutant: the except clause logs the error and leaves the state as it was.
execute_except_keeps_state(st) == st

\* `except Exception: self._context.state = AgentStatesEnum.FAILED`
execute_except(st) == FAILED

\* Mutant: the cleanup follows the try statement instead of sitting in a
\* finally block, so a CancelledError unwinding the frame skips it.
execute_unwind_skips_on_cancel(kind) == IF kind = "cancel" THEN "done" ELSE "finally"

\* try/finally: however the loop is left ("return": the while condition is
\* false, "exception": the except clause ran, "cancel": CancelledError, which
\* `except Exception` does not catch, unwinds the frame), the finally block is next.
execute_unwind(kind) == "finally"

\* The finally block: streaming_generator.finish(usage=token_usage.to_dict())
\* and _save_agent_log(); neither awaits.
execute_finally(f) == [flushed |-> f.flushed + 1, saved |-> f.saved + 1]

NotFinalized == [flushed |-> 0, saved |-> 0]

\* The coroutine is parked on an await that really yields.
Suspended ==
    \/ pc \in {"reasoning", "select"}
    \/ pc = "action" /\ action_tool.name \in SuspendingTools

Init ==
    /\ AuxIdle
    /\ variant \in Variants
    /\ max_iterations \in 1..MaxIterationsBound
    /\ max_searches \in (IF variant = "coding" THEN {CodingMaxSearches}
                         ELSE 0..MaxSearchesBound)
    /\ max_conversation_messages \in
           (IF variant = "coding"
            THEN {SmallConversationCap, DefaultMaxConversationMessages}
            ELSE {DefaultMaxConversationMessages})
    /\ usage_place \in UsagePlaces
    /\ state = INITED
    /\ iteration = 0
    /\ searches_used = 0
    /\ clarifications_used = 0
    /\ clarification_received = FALSE
    /\ execution_result = "none"
    /\ conversation = <<>>
    /\ log = <<>>
    /\ token_usage = EmptyTokenUsage
    /\ request_counter = 0
    /\ continuous_mode = FALSE
    /\ pc = "idle"
    /\ action_tool = NoTool
    /\ runs = 0
    /\ exit = "none"
    /\ finalized = NotFinalized
    /\ raised = "none"
    /\ text_fallback = FALSE
    /\ last = [op |-> "init", from |-> INITED, seq |-> 0]
    /\ usage_calls = <<>>
    /\ reported = NotReported

\* BaseAgent.execute, up to the first evaluation of the while condition.
Execute ==
    /\ pc \in {"idle", "done"}
    /\ last.seq < MaxCalls
    /\ conversation' = Append(conversation, TaskMsg)
    /\ pc' = "loop"
    /\ runs' = runs + 1
    /\ exit' = "none"
    /\ finalized' = NotFinalized
    /\ raised' = "none"
    /\ text_fallback' = FALSE
    /\ last' = [op |-> "execute", from |-> state, seq |-> last.seq + 1]
    /\ reported' = NotReported
    /\ UNCHANGED <<auxVars, cfgVars, ctxVars, log, token_usage, request_counter,
                   continuous_mode, action_tool,
                   usage_calls>>

\* The while condition is true: iteration += 1 and the reasoning request is
\* built and sent.  The coding agent's _reasoning_phase calls _prepare_context
\* twice (request, then messages_for_logging) before it awaits the stream.
StartIteration ==
    /\ pc = "loop"
    /\ state \notin FINISH_STATES
    /\ iteration < IterationCap
    /\ iteration' = iteration + 1
    /\ conversation' =
           prepare_context(variant,
               prepare_context(variant, conversation, max_conversation_messages),
               max_conversation_messages)
    /\ pc' = "reasoning"
    /\ UNCHANGED <<auxVars, cfgVars, state, searches_used, clarifications_used,
                   clarification_received, execution_result, log, token_usage,
                   request_counter, continuous_mode, action_tool, histVars,
                   ledgerVars>>

\* The while condition is false: normal loop exit.
LoopExit ==
    /\ pc = "loop"
    /\ state \in FINISH_STATES
    /\ pc' = execute_unwind("return")
    /\ exit' = "returned"
    /\ UNCHANGED <<auxVars, cfgVars, ctxVars, dataVars, action_tool, runs, finalized, raised,
                   text_fallback, last,
                   ledgerVars>>

\* The reasoning request fails (transport error, malformed stream): the
\* exception leaves _reasoning_phase and reaches execute's except clause.
ReasoningRaises ==
    /\ pc = "reasoning"
    /\ state' = execute_except(state)
    /\ raised' = "reasoning"
    /\ pc' = execute_unwind("exception")
    /\ exit' = "returned"
    /\ UNCHANGED <<auxVars, cfgVars, iteration, searches_used, clarifications_used,
                   clarification_received, execution_result, dataVars, action_tool,
                   runs, finalized, text_fallback, last,
                   ledgerVars>>

\* SGRVampiCodeAgent._reasoning_phase after the stream completed, followed
\* without suspension by the request of _select_action_phase.
CodingReasoning ==
    /\ pc = "reasoning"
    /\ variant = "coding"
    /\ LET u == RequestUsage(usage_place)
       IN token_usage' = add_request_detail(add_usage(token_usage, u),
                                            request_counter + 1, u)
    /\ request_counter' = request_counter + 1
    /\ conversation' =
           prepare_context(variant,
               conversation \o <<Msg("assistant", "reasoning_call", iteration, FALSE),
                                 Msg("tool", "reasoning_result", iteration, FALSE)>>,
               max_conversation_messages)
    /\ log' = Append(log, LogEntry(iteration, "reasoning"))
    /\ pc' = "select"
    /\ usage_calls' = record_usage(usage_calls, RequestUsage(usage_place))
    /\ UNCHANGED <<auxVars, cfgVars, ctxVars, continuous_mode, action_tool, histVars,
                   reported>>

\* Mutant: the text response is reported with status ERROR.
TextResponseTool_as_error(content) ==
    FinalAnswerTool(ERROR, IF content = "none" THEN "default_text" ELSE content)

\* The tool substituted when the completion has no usable tool call:
\* `final_content = message.content or "Task completed successfully"`.
TextResponseTool(content) ==
    FinalAnswerTool(COMPLETED, IF content = "none" THEN "default_text" ELSE content)

\* The tool substituted when the request or the parsing raised (outer except).
SelectionErrorTool == FinalAnswerTool(ERROR, "error_message")

\* The tail of _select_action_phase: the assistant message with the tool call.
SelectTail(tool) ==
    /\ conversation' = Append(conversation,
                              Msg("assistant", "action_call", iteration, FALSE))
    /\ action_tool' = tool
    /\ pc' = "action"

\* SGRVampiCodeAgent._select_action_phase: the completion carries a tool call
\* for one of the offered tools.
CodingSelectTool ==
    /\ pc = "select"
    /\ \E n \in prepare_tools :
         \E tool \in Instances(n) :
           LET u == RequestUsage(usage_place)
           IN /\ token_usage' = add_request_detail(add_usage(token_usage, u),
                                                   request_counter + 1, u)
              /\ SelectTail(tool)
    /\ request_counter' = request_counter + 1
    /\ usage_calls' = record_usage(usage_calls, RequestUsage(usage_place))
    /\ UNCHANGED <<auxVars, cfgVars, ctxVars, log, continuous_mode, histVars,
                   reported>>

\* SGRVampiCodeAgent._select_action_phase: the completion carries no tool call
\* (inner except); its content is free text or empty.
CodingSelectText ==
    /\ pc = "select"
    /\ \E content \in {"raw_text", "none"} :
         LET u == RequestUsage(usage_place)
         IN /\ token_usage' = add_request_detail(add_usage(token_usage, u),
                                                 request_counter + 1, u)
            /\ SelectTail(TextResponseTool(content))
            /\ text_fallback' = (content # "none")
    /\ request_counter' = request_counter + 1
    /\ usage_calls' = record_usage(usage_calls, RequestUsage(usage_place))
    /\ UNCHANGED <<auxVars, cfgVars, ctxVars, log, continuous_mode, runs, exit, finalized,
                   raised, last,
                   reported>>

\* SGRVampiCodeAgent._select_action_phase: the request or the validation of
\* the arguments raised (outer except); the usage was merged before the failure
\* or not at all, and no request detail is stored.
CodingSelectError ==
    /\ pc = "select"
    /\ \E merged \in BOOLEAN :
         LET u == IF merged THEN RequestUsage(usage_place) ELSE NoUsage
         IN /\ token_usage' = add_usage(token_usage, u)
            /\ usage_calls' = record_usage(usage_calls, u)
    /\ SelectTail(SelectionErrorTool)
    /\ UNCHANGED <<auxVars, cfgVars, ctxVars, log, request_counter, continuous_mode, histVars,
                   reported>>

\* SGRResearchAgent._reasoning_phase after the stream completed, followed
\* without suspension by _select_action_phase (no second request).
ResearchReasoning ==
    /\ pc = "reasoning"
    /\ variant = "research"
    /\ token_usage' = add_usage(token_usage, RequestUsage(usage_place))
    /\ log' = Append(log, LogEntry(iteration, "reasoning"))
    /\ \E n \in prepare_tools : \E tool \in Instances(n) : SelectTail(tool)
    /\ usage_calls' = record_usage(usage_calls, RequestUsage(usage_place))
    /\ UNCHANGED <<auxVars, cfgVars, ctxVars, request_counter, continuous_mode, histVars,
                   reported>>

\* SGRResearchAgent._action_phase (inherited by the coding agent): the tool returns.
Action ==
    /\ pc = "action"
    /\ ~ToolRaises(action_tool)
    /\ state' = ToolState(action_tool, state)
    /\ execution_result' =
           IF action_tool.name = "FinalAnswerTool"
           THEN FinalAnswerTool_call_result(action_tool, execution_result)
           ELSE execution_result
    /\ searches_used' =
           IF action_tool.name = "WebSearchTool"
           THEN WebSearchTool_call_searches(searches_used)
           ELSE searches_used
    /\ clarification_received' =
           IF action_tool.name = "ClarificationTool"
           THEN ClarificationTool_call_event(clarification_received)
           ELSE clarification_received
    /\ conversation' = Append(conversation,
                              Msg("tool", "action_result", iteration, FALSE))
    /\ log' = Append(log, LogEntry(iteration, "tool_execution"))
    /\ action_tool' = NoTool
    /\ pc' = "loop"
    /\ UNCHANGED <<auxVars, cfgVars, iteration, clarifications_used, token_usage,
                   request_counter, continuous_mode, histVars,
                   ledgerVars>>

\* _action_phase: the tool raises; the exception reaches execute's except clause.
ActionRaises ==
    /\ pc = "action"
    /\ ToolRaises(action_tool)
    /\ state' = execute_except(state)
    /\ raised' = "action"
    /\ action_tool' = NoTool
    /\ pc' = execute_unwind("exception")
    /\ exit' = "returned"
    /\ UNCHANGED <<auxVars, cfgVars, iteration, searches_used, clarifications_used,
                   clarification_received, execution_result, dataVars,
                   runs, finalized, text_fallback, last,
                   ledgerVars>>

\* The task awaiting execute() is cancelled: CancelledError is raised at the
\* current suspension point.  It is a BaseException, so neither the except
\* clause of execute nor the one of _select_action_phase catches it.
Cancel ==
    /\ Suspended
    /\ pc' = execute_unwind("cancel")
    /\ exit' = "cancelled"
    /\ action_tool' = NoTool
    /\ UNCHANGED <<auxVars, cfgVars, ctxVars, dataVars, runs, finalized, raised,
                   text_fallback, last,
                   ledgerVars>>

\* The finally block of execute; control then leaves execute().
Finally ==
    /\ pc = "finally"
    /\ finalized' = execute_finally(finalized)
    /\ pc' = "done"
    /\ reported' = to_dict(token_usage)
    /\ UNCHANGED <<auxVars, cfgVars, ctxVars, dataVars, action_tool, runs, exit, raised,
                   text_fallback, last,
                   usage_calls>>

\* Mutant: provide_clarification forgets to count the clarification.
ProvideClarification_uncounted ==
    /\ Suspended \/ pc \in {"idle", "done"}
    /\ last.seq < MaxCalls
    /\ conversation' = Append(conversation, ClarificationMsg)
    /\ clarification_received' = TRUE
    /\ state' = RESEARCHING
    /\ last' = [op |-> "provide_clarification", from |-> state, seq |-> last.seq + 1]
    /\ UNCHANGED <<auxVars, cfgVars, iteration, searches_used, clarifications_used,
                   execution_result, log, token_usage, request_counter,
                   continuous_mode, ctlVars, runs, exit, finalized, raised,
                   text_fallback,
                   ledgerVars>>

\* BaseAgent.provide_clarification: no guard on the current state.
ProvideClarification ==
    /\ Suspended \/ pc \in {"idle", "done"}
    /\ last.seq < MaxCalls
    /\ conversation' = Append(conversation, ClarificationMsg)
    /\ clarifications_used' = clarifications_used + 1
    /\ clarification_received' = TRUE
    /\ state' = RESEARCHING
    /\ last' = [op |-> "provide_clarification", from |-> state, seq |-> last.seq + 1]
    /\ UNCHANGED <<auxVars, cfgVars, iteration, searches_used, execution_result, log,
                   token_usage, request_counter, continuous_mode, ctlVars,
                   runs, exit, finalized, raised, text_fallback,
                   ledgerVars>>

\* SGRVampiCodeAgent.continue_conversation
ContinueConversation ==
    /\ variant = "coding"
    /\ pc \in {"idle", "done"}
    /\ last.seq < MaxCalls
    /\ continuous_mode' = TRUE
    /\ conversation' = Append(conversation, UserTurnMsg)
    /\ state' = RESEARCHING
    /\ last' = [op |-> "continue_conversation", from |-> state, seq |-> last.seq + 1]
    /\ UNCHANGED <<auxVars, cfgVars, iteration, searches_used, clarifications_used,
                   clarification_received, execution_result, log, token_usage,
                   request_counter, ctlVars, runs, exit, finalized, raised,
                   text_fallback,
                   ledgerVars>>

Next ==
    \/ Execute
    \/ StartIteration
    \/ LoopExit
    \/ ReasoningRaises
    \/ CodingReasoning
    \/ CodingSelectTool
    \/ CodingSelectText
    \/ CodingSelectError
    \/ ResearchReasoning
    \/ Action
    \/ ActionRaises
    \/ Cancel
    \/ Finally
    \/ ProvideClarification
    \/ ContinueConversation

Spec == Init /\ [][Next]_vars

\* ------------------------------------------------- truncation on its own
\* The conversation of a coding agent under arbitrary appends, with
\* _truncate_conversation called at arbitrary points.  A message is a user or
\* an assistant message whose content does or does not match the clarification
\* marker; `call` numbers the appended messages, so that every message is
\* distinguishable.  `last.before` is the conversation the last call found.
MessageRoles == {"user", "assistant"}

TruncInit ==
    /\ AuxIdle
    /\ variant = "coding"
    /\ max_iterations = 1
    /\ max_searches = CodingMaxSearches
    /\ max_conversation_messages \in 1..MaxCap
    /\ usage_place = "none"
    /\ state = INITED
    /\ iteration = 0
    /\ searches_used = 0
    /\ clarifications_used = 0
    /\ clarification_received = FALSE
    /\ execution_result = "none"
    /\ conversation = <<>>
    /\ log = <<>>
    /\ token_usage = EmptyTokenUsage
    /\ request_counter = 0
    /\ continuous_mode = FALSE
    /\ pc = "idle"
    /\ action_tool = NoTool
    /\ runs = 0
    /\ exit = "none"
    /\ finalized = NotFinalized
    /\ raised = "none"
    /\ text_fallback = FALSE
    /\ last = [op |-> "init", from |-> INITED, seq |-> 0, before |-> <<>>]
    /\ usage_calls = <<>>
    /\ reported = NotReported

\* self.conversation.append({"role": ..., "content": ...})
AppendMessage ==
    /\ last.seq < MaxAppends
    /\ \E r \in MessageRoles : \E m \in BOOLEAN :
         conversation' = Append(conversation, Msg(r, "message", last.seq + 1, m))
    /\ last' = [op |-> "append", from |-> state, seq |-> last.seq + 1,
                before |-> conversation]
    /\ UNCHANGED <<auxVars, cfgVars, ctxVars, log, token_usage, request_counter,
                   continuous_mode, ctlVars, runs, exit, finalized, raised,
                   text_fallback,
                   ledgerVars>>

\* self._truncate_conversation()
TruncateConversation ==
    /\ Len(conversation) <= MaxLen
    /\ conversation' = truncate_conversation(conversation, max_conversation_messages)
    /\ last' = [op |-> "truncate", from |-> state, seq |-> last.seq,
                before |-> conversation]
    /\ UNCHANGED <<auxVars, cfgVars, ctxVars, log, token_usage, request_counter,
                   continuous_mode, ctlVars, runs, exit, finalized, raised,
                   text_fallback,
                   ledgerVars>>

TruncNext ==
    \/ AppendMessage
    \/ TruncateConversation

TruncSpec == TruncInit /\ [][TruncNext]_vars

\* ----------------------------------------------------- the ledger on its own
\* A TokenUsage ledger that receives arbitrary usages and is then summarized.
\* A backend reports its counters on an object, or in a dict with the flat
\* keys, or in a dict with the nested detail structures; its total_tokens is
\* prompt + completion, or includes the thinking tokens, or is missing.
UsageShapes == {"object", "dict_flat", "dict_nested"}

TotalKinds == {"sum", "with_thinking", "missing"}

BackendUsage(shape, t, kind) ==
    LET p == t + 1
        c == 1
        n == IF t = 0 THEN None ELSE t
        tot == CASE kind = "sum" -> p + c
                 [] kind = "with_thinking" -> p + c + t
                 [] OTHER -> None
    IN IF shape = "dict_flat"
       THEN Usage("dict", p, c, tot, n, None, n, None)
       ELSE Usage(IF shape = "object" THEN "object" ELSE "dict",
                  p, c, tot, None, n, None, n)

\* Usages that report a cost (as attribute, as extra field, as dict key), and
\* an object of a pydantic model without extra fields.
CostUsages ==
    LET o == BackendUsage("object", 0, "sum")
        d == BackendUsage("dict_flat", 0, "sum")
    IN {[o EXCEPT !.cost = 1],
        [o EXCEPT !.model_extra = "cost", !.extra_cost = 2],
        [d EXCEPT !.cost = 1],
        [o EXCEPT !.model_extra = "none"]}

\* Every shape with the plain total, and every kind of total on the object.
Usages ==
    {NoUsage}
        \cup {BackendUsage(shape, t, "sum") : shape \in UsageShapes, t \in 0..MaxTokens}
        \cup {BackendUsage("object", t, kind) : t \in 0..MaxTokens, kind \in TotalKinds}
        \cup CostUsages

LedgerInit ==
    /\ AuxIdle
    /\ variant = "coding"
    /\ max_iterations = 1
    /\ max_searches = CodingMaxSearches
    /\ max_conversation_messages = DefaultMaxConversationMessages
    /\ usage_place = "none"
    /\ state = INITED
    /\ iteration = 0
    /\ searches_used = 0
    /\ clarifications_used = 0
    /\ clarification_received = FALSE
    /\ execution_result = "none"
    /\ conversation = <<>>
    /\ log = <<>>
    /\ token_usage = EmptyTokenUsage
    /\ request_counter = 0
    /\ continuous_mode = FALSE
    /\ pc = "idle"
    /\ action_tool = NoTool
    /\ runs = 0
    /\ exit = "none"
    /\ finalized = NotFinalized
    /\ raised = "none"
    /\ text_fallback = FALSE
    /\ last = [op |-> "init", from |-> INITED, seq |-> 0]
    /\ usage_calls = <<>>
    /\ reported = NotReported

\* self.token_usage.add_usage(usage)
AddUsage ==
    /\ last.op # "to_dict"
    /\ Len(usage_calls) < MaxRequests
    /\ \E u \in Usages :
         /\ token_usage' = add_usage(token_usage, u)
         /\ usage_calls' = Append(usage_calls, u)
         /\ raised' = IF add_usage_raises(u) THEN "add_usage" ELSE raised
    /\ last' = [op |-> "add_usage", from |-> state, seq |-> last.seq + 1]
    /\ UNCHANGED <<auxVars, cfgVars, ctxVars, conversation, log, request_counter,
                   continuous_mode, ctlVars, runs, exit, finalized,
                   text_fallback, reported>>

\* usage_dict = self.token_usage.to_dict()
ToDict ==
    /\ last.op # "to_dict"
    /\ reported' = to_dict(token_usage)
    /\ last' = [op |-> "to_dict", from |-> state, seq |-> last.seq + 1]
    /\ UNCHANGED <<auxVars, cfgVars, ctxVars, dataVars, ctlVars, runs, exit, finalized,
                   raised, text_fallback, usage_calls>>

LedgerNext ==
    \/ AddUsage
    \/ ToDict

LedgerSpec == LedgerInit /\ [][LedgerNext]_vars

\* ------------------------------------------------ the action schema on its own
\* A newly constructed agent of variant v with the default configuration.
FreshAgent(v) ==
    /\ variant = v
    /\ max_iterations = MaxIterationsBound
    /\ max_searches = CodingMaxSearches
    /\ max_conversation_messages = DefaultMaxConversationMessages
    /\ usage_place = "completion"
    /\ state = INITED
    /\ iteration = 0
    /\ searches_used = 0
    /\ clarifications_used = 0
    /\ clarification_received = FALSE
    /\ execution_result = "none"
    /\ conversation = <<>>
    /\ log = <<>>
    /\ token_usage = EmptyTokenUsage
    /\ request_counter = 0
    /\ continuous_mode = FALSE
    /\ pc = "idle"
    /\ action_tool = NoTool
    /\ runs = 0
    /\ exit = "none"
    /\ finalized = NotFinalized
    /\ raised = "none"
    /\ text_fallback = FALSE
    /\ last = [op |-> "init", from |-> INITED, seq |-> 0]
    /\ usage_calls = <<>>
    /\ reported = NotReported

\* Tool classes a toolkit can hold: tools of the repository and two classes of
\* a user toolkit, one of them a subclass of ReadFileTool.  `parent` is the
\* base class, `declared` the tool_name written in the class body ("" for
\* none: the class attribute is then inherited).
ToolClasses ==
    {"ReadFileTool", "WriteFileTool", "FinalAnswerTool", "CachedReadFileTool",
     "LookupTool"}

ClassParent(cls) ==
    IF cls = "CachedReadFileTool" THEN "ReadFileTool" ELSE "BaseTool"

ClassDeclaredName(cls) == IF cls = "LookupTool" THEN "lookup" ELSE ""

\* cls.__name__.lower()
lower(cls) ==
    CASE cls = "ReadFileTool" -> "readfiletool"
      [] cls = "WriteFileTool" -> "writefiletool"
      [] cls = "FinalAnswerTool" -> "finalanswertool"
      [] cls = "CachedReadFileTool" -> "cachedreadfiletool"
      [] cls = "LookupTool" -> "lookuptool"

\* The fields a tool class declares or inherits.
OwnFields(cls) ==
    CASE cls = "ReadFileTool" -> {"file_path"}
      [] cls = "WriteFileTool" -> {"file_path", "content"}
      [] cls = "FinalAnswerTool" -> {"answer", "status"}
      [] cls = "CachedReadFileTool" -> {"file_path", "max_age"}
      [] cls = "LookupTool" -> {"query"}

FieldValues == {"x", "y"}

RECURSIVE tool_name(_)
\* BaseTool.__init_subclass__: `cls.tool_name = cls.tool_name or
\* cls.__name__.lower()`; the right-hand cls.tool_name is the attribute found
\* along the bases when the class body declares none (BaseTool.tool_name is None).
tool_name(cls) ==
    LET found == IF ClassDeclaredName(cls) # "" THEN ClassDeclaredName(cls)
                 ELSE IF ClassParent(cls) = "BaseTool" THEN ""
                 ELSE tool_name(ClassParent(cls))
    IN IF found # "" THEN found ELSE lower(cls)

\* NextStepToolsBuilder._create_discriminant_tool: the Literal of the field
\* tool_name_discriminator of D_<cls>.
discriminant_literal(cls) == tool_name(cls)

\* NextStepToolsBuilder._create_tool_types_union: one derived variant per
\* candidate (a single candidate is used without a union).
create_tool_types_union(tools) == [cls \in tools |-> discriminant_literal(cls)]

\* The fields pydantic's serializer writes for an instance of D_<cls>: the
\* tool's fields and the field added by create_model.
serialize_fields(inst) ==
    [k \in DOMAIN inst.own \cup {"tool_name_discriminator"} |->
        IF k = "tool_name_discriminator" THEN inst.tool_name_discriminator
        ELSE inst.own[k]]

\* DiscriminantToolMixin.model_dump
DiscriminantToolMixin_model_dump(inst) ==
    [k \in DOMAIN serialize_fields(inst) \ {"tool_name_discriminator"} |->
        serialize_fields(inst)[k]]

\* The key/value pairs of a dict, as they appear in its JSON text or its repr.
Items(d) == {<<k, d[k]>> : k \in DOMAIN d}

\* BaseModel.model_dump_json: the JSON text of the serializer's output; the
\* overridden model_dump is not called.
model_dump_json(inst) == Items(serialize_fields(inst))

\* NextStepTools.model_dump(): the value under `function` is written by the
\* serializer of the outer model, not by the model_dump of the nested instance.
NextStepTools_model_dump_function(inst) == Items(serialize_fields(inst))

Serialization(use, items) == [use |-> use, items |-> items]

SchemaInit ==
    /\ ExtIdle
    /\ FreshAgent("research")
    /\ tools_list \in (SUBSET ToolClasses) \ {{}}
    /\ schema = EmptyDict
    /\ function = NoFunction
    /\ serialized = {}
    /\ ToolIdle
    /\ ProviderIdle

\* SGRResearchAgent._prepare_tools, _reasoning_phase and _select_action_phase:
\* the schema is built from the candidates, the completion is parsed into an
\* instance of one derived variant, the reasoning is logged and the tool call
\* is appended to the conversation.
SchemaReasoning ==
    /\ function = NoFunction
    /\ schema' = create_tool_types_union(tools_list)
    /\ \E cls \in tools_list, v \in FieldValues :
         function' = [cls |-> cls,
                      tool_name_discriminator |-> discriminant_literal(cls),
                      own |-> [k \in OwnFields(cls) |-> v]]
    /\ serialized' = serialized
           \cup {Serialization("log_reasoning", NextStepTools_model_dump_function(function')),
                 Serialization("arguments", model_dump_json(function'))}
    /\ last' = [op |-> "schema_reasoning", from |-> state, seq |-> last.seq + 1]
    /\ UNCHANGED <<extVars, cfgVars, ctxVars, dataVars, ctlVars, runs, exit, finalized, raised,
                   text_fallback, ledgerVars, tools_list, toolVars, providerVars>>

\* SGRResearchAgent._action_phase: FinalAnswerTool returns its own JSON dump
\* as observation (the tools of coding.py return other text);
\* _log_tool_execution stores tool.model_dump().
SchemaAction ==
    /\ function # NoFunction
    /\ last.op = "schema_reasoning"
    /\ serialized' = serialized
           \cup {Serialization("log_tool_execution",
                               Items(DiscriminantToolMixin_model_dump(function)))}
           \cup (IF function.cls = "FinalAnswerTool"
                 THEN {Serialization("observation", model_dump_json(function))}
                 ELSE {})
    /\ last' = [op |-> "schema_action", from |-> state, seq |-> last.seq + 1]
    /\ UNCHANGED <<extVars, cfgVars, ctxVars, dataVars, ctlVars, runs, exit, finalized, raised,
                   text_fallback, ledgerVars, tools_list, schema, function, toolVars,
                   providerVars>>

SchemaNext ==
    \/ SchemaReasoning
    \/ SchemaAction

SchemaSpec == SchemaInit /\ [][SchemaNext]_vars

\* ------------------------------------------------- the coding tools on their own
\* What the path given to a file tool refers to: nothing, a readable and
\* writable UTF-8 text file, a directory, a file the process may not open, a
\* file whose bytes are not UTF-8, a file that may be read but not written.
PathConditions ==
    {"missing", "file", "directory", "unreadable", "undecodable", "readonly"}

\* How the child process of a command tool behaves: output and exit code 0, no
\* output and exit code 0, exit code 1, exit code 2, still running at the
\* timeout, ended on its own just after the timeout expired, not started at
\* all, output that is not UTF-8.
ProcessConditions ==
    {"exit0", "exit0_silent", "exit1", "exit2", "timeout", "timeout_exited",
     "spawn_error", "undecodable_output"}

\* Subclasses of OSError the tool bodies meet.
OSErrorSubclasses ==
    {"FileNotFoundError", "IsADirectoryError", "PermissionError",
     "ProcessLookupError"}

\* Mutant: the handler catches OSError only.
except_OSError(exc) == exc \in OSErrorSubclasses

\* `except Exception as e` at the end of every __call__ of coding.py.
except_Exception(exc) == exc \in OSErrorSubclasses \cup {"UnicodeDecodeError"}

\* The outcome of a tool body: the exception that left it ("none" when it
\* returned), the returned text and the file system it leaves.
Outcome(exc, kind, text, f) == [raised |-> exc, kind |-> kind, text |-> text, fs |-> f]

Returns(kind, text, f) == Outcome("none", kind, text, f)

Raises(exc, f) == Outcome(exc, "none", "none", f)

\* `try: <body> except Exception as e: return f"<prefix>: {str(e)}"`
try_except(body, prefix) ==
    IF body.raised # "none" /\ except_Exception(body.raised)
    THEN Returns("error", prefix, body.fs)
    ELSE body

\* The symbols of a text file: a character, a line feed, a carriage return
\* followed by a line feed.
Symbols == {"a", "lf", "crlf"}

\* open(path, "r").read() in text mode: universal newlines turn "\r\n" into "\n".
read_text(bytes) ==
    [i \in 1..Len(bytes) |-> IF bytes[i] = "crlf" THEN "lf" ELSE bytes[i]]

\* open(path, "w").write(text) in text mode on POSIX: "\n" is written as it is.
write_text(text) == text

\* needle starts at position i of content
StartsAt(content, i, needle) ==
    /\ i + Len(needle) - 1 <= Len(content)
    /\ SubSeq(content, i, i + Len(needle) - 1) = needle

\* str.find(needle, start): the first position >= start, 0 when there is none.
str_find(content, needle, start) ==
    LET found == {i \in start..Len(content) : StartsAt(content, i, needle)}
    IN IF found = {} THEN 0 ELSE Min(found)

\* `needle in content`
str_contains(content, needle) == str_find(content, needle, 1) # 0

RECURSIVE str_count_from(_, _, _)
str_count_from(content, needle, start) ==
    LET i == str_find(content, needle, start)
    IN IF i = 0 THEN 0
       ELSE 1 + str_count_from(content, needle, i + Len(needle))

\* str.count(needle): the number of non-overlapping occurrences.
str_count(content, needle) == str_count_from(content, needle, 1)

\* str.replace(needle, replacement, 1)
str_replace_first(content, needle, replacement) ==
    LET i == str_find(content, needle, 1)
    IN IF i = 0 THEN content
       ELSE SubSeq(content, 1, i - 1) \o replacement
                \o SubSeq(content, i + Len(needle), Len(content))

\* ReadFileTool.__call__
ReadFileTool_call(input, f) ==
    try_except(
        CASE f.path = "missing" -> Returns("error", "File not found", f)
          [] f.path = "directory" -> Returns("error", "Path is not a file", f)
          [] f.path = "unreadable" -> Raises("PermissionError", f)
          [] OTHER -> Returns("ok", "File", f),
        "Error reading file")

\* WriteFileTool.__call__
WriteFileTool_call(input, f) ==
    try_except(
        CASE f.path = "directory" -> Raises("IsADirectoryError", f)
          [] f.path \in {"unreadable", "readonly"} -> Raises("PermissionError", f)
          [] OTHER -> Returns("ok", "Successfully wrote",
                              [path |-> "file", content |-> write_text(input.content)]),
        "Error writing file")

\* EditFileTool.__call__
EditFileTool_call(input, f) ==
    try_except(
        CASE f.path = "missing" -> Returns("error", "File not found", f)
          [] f.path = "directory" -> Raises("IsADirectoryError", f)
          [] f.path = "unreadable" -> Raises("PermissionError", f)
          [] f.path = "undecodable" -> Raises("UnicodeDecodeError", f)
          [] OTHER ->
               LET content == read_text(f.content)
               IN IF ~str_contains(content, input.search_text)
                  THEN Returns("error", "Search text not found", f)
                  ELSE IF str_count(content, input.search_text) > 1
                  THEN Returns("error", "Search text appears several times", f)
                  ELSE IF f.path = "readonly"
                  THEN Raises("PermissionError", f)
                  ELSE Returns("ok", "Successfully edited",
                               [f EXCEPT !.content =
                                   write_text(str_replace_first(content,
                                       input.search_text, input.replace_text))]),
        "Error editing file")

\* ListDirectoryTool.__call__
ListDirectoryTool_call(input, f) ==
    try_except(
        CASE f.path = "missing" -> Returns("error", "Directory not found", f)
          [] f.path = "directory" -> Returns("ok", "Contents of", f)
          [] OTHER -> Returns("error", "Path is not a directory", f),
        "Error listing directory")

\* GrepTool.__call__ (no timeout: the tool waits until grep ends)
GrepTool_call(input, f, p) ==
    try_except(
        CASE p = "spawn_error" -> Raises("FileNotFoundError", f)
          [] p = "exit2" -> Returns("error", "Error running grep", f)
          [] p = "undecodable_output" -> Raises("UnicodeDecodeError", f)
          [] p \in {"exit0_silent", "exit1"} -> Returns("ok", "No matches found", f)
          [] OTHER -> Returns("ok", "Search results", f),
        "Error running grep")

\* RunCommandTool.__call__: the inner `except asyncio.TimeoutError` kills the
\* process, and process.kill() raises ProcessLookupError when it has ended.
RunCommandTool_call(input, f, p) ==
    try_except(
        CASE p = "spawn_error" -> Raises("FileNotFoundError", f)
          [] p = "timeout" -> Returns("error", "Command timed out", f)
          [] p = "timeout_exited" -> Raises("ProcessLookupError", f)
          [] p = "undecodable_output" -> Raises("UnicodeDecodeError", f)
          [] OTHER -> Returns("ok", "Command, exit code and output", f),
        "Error running command")

\* FindFilesTool.__call__ (no timeout)
FindFilesTool_call(input, f, p) ==
    try_except(
        CASE p = "spawn_error" -> Raises("FileNotFoundError", f)
          [] p \in {"exit1", "exit2"} -> Returns("error", "Error running find", f)
          [] p = "undecodable_output" -> Raises("UnicodeDecodeError", f)
          [] p = "exit0_silent" -> Returns("ok", "No files found", f)
          [] OTHER -> Returns("ok", "Files matching", f),
        "Error finding files")

FileTools == {"ReadFileTool", "WriteFileTool", "EditFileTool", "ListDirectoryTool"}

CommandTools == {"GrepTool", "RunCommandTool", "FindFilesTool"}

\* `await tool(context)` for the tools of coding.py
tool_call(input, f, p) ==
    CASE input.name = "ReadFileTool" -> ReadFileTool_call(input, f)
      [] input.name = "WriteFileTool" -> WriteFileTool_call(input, f)
      [] input.name = "EditFileTool" -> EditFileTool_call(input, f)
      [] input.name = "ListDirectoryTool" -> ListDirectoryTool_call(input, f)
      [] input.name = "GrepTool" -> GrepTool_call(input, f, p)
      [] input.name = "RunCommandTool" -> RunCommandTool_call(input, f, p)
      [] input.name = "FindFilesTool" -> FindFilesTool_call(input, f, p)

\* Sequences over S of length lo..hi
SeqsOf(S, lo, hi) == UNION {[1..n -> S] : n \in lo..hi}

ToolInput(name, search, replacement, content) ==
    [name |-> name, search_text |-> search, replace_text |-> replacement,
     content |-> content]

\* The file a path condition stands for, with some content where it has one.
File(cond, content) ==
    [path |-> cond, content |-> IF cond \in {"file", "readonly"} THEN content ELSE <<>>]

\* The coding agent at the start of the action phase of its first iteration
\* (both requests of the iteration were answered without usage).
InFirstActionPhase(name) ==
    /\ variant = "coding"
    /\ max_iterations = MaxIterationsBound
    /\ max_searches = CodingMaxSearches
    /\ max_conversation_messages = DefaultMaxConversationMessages
    /\ usage_place = "none"
    /\ state = INITED
    /\ iteration = 1
    /\ searches_used = 0
    /\ clarifications_used = 0
    /\ clarification_received = FALSE
    /\ execution_result = "none"
    /\ conversation = <<TaskMsg,
                        Msg("assistant", "reasoning_call", 1, FALSE),
                        Msg("tool", "reasoning_result", 1, FALSE),
                        Msg("assistant", "action_call", 1, FALSE)>>
    /\ log = <<LogEntry(1, "reasoning")>>
    /\ token_usage = add_request_detail(
                         add_request_detail(EmptyTokenUsage, 1, NoUsage), 2, NoUsage)
    /\ request_counter = 2
    /\ continuous_mode = FALSE
    /\ pc = "action"
    /\ action_tool = PlainTool(name)
    /\ runs = 1
    /\ exit = "none"
    /\ finalized = NotFinalized
    /\ raised = "none"
    /\ text_fallback = FALSE
    /\ usage_calls = <<>>
    /\ reported = NotReported

ToolInit ==
    /\ ExtIdle
    /\ SchemaIdle
    /\ ProviderIdle
    /\ observation = NoObservation
    /\ \/ /\ tool_input \in {ToolInput(n, <<>>, <<>>, <<"a">>) :
                                 n \in FileTools \ {"EditFileTool"}}
          /\ fs \in {File(c, <<"a">>) : c \in PathConditions}
          /\ proc = "exit0_silent"
       \/ /\ tool_input \in {ToolInput("EditFileTool", s, r, <<>>) :
                                 s \in SeqsOf(Symbols, 1, MaxSearchLen),
                                 r \in {<<>>, <<"b">>}}
          /\ fs \in {File(c, t) : c \in PathConditions,
                                  t \in SeqsOf(Symbols, 0, MaxContentLen)}
          /\ proc = "exit0_silent"
       \/ /\ tool_input \in {ToolInput(n, <<>>, <<>>, <<>>) : n \in CommandTools}
          /\ fs = File("directory", <<>>)
          /\ proc \in ProcessConditions
    /\ InFirstActionPhase(tool_input.name)
    /\ last = [op |-> "execute", from |-> INITED, seq |-> 1, before |-> fs]

\* SGRResearchAgent._action_phase, inherited by the coding agent, followed by
\* execute's except clause when the tool raised.
ActionPhase(op) ==
    LET out == tool_call(tool_input, fs, proc)
    IN /\ pc = "action"
       /\ fs' = out.fs
       /\ last' = [op |-> op, from |-> state, seq |-> last.seq + 1, before |-> fs]
       /\ action_tool' = NoTool
       /\ IF out.raised = "none"
          THEN /\ observation' = [kind |-> out.kind, text |-> out.text]
               /\ conversation' = Append(conversation,
                                         Msg("tool", "action_result", iteration, FALSE))
               /\ log' = Append(log, LogEntry(iteration, "tool_execution"))
               /\ pc' = "loop"
               /\ UNCHANGED <<state, raised, exit>>
          ELSE /\ state' = execute_except(state)
               /\ raised' = "action"
               /\ pc' = execute_unwind("exception")
               /\ exit' = "returned"
               /\ UNCHANGED <<observation, conversation, log>>
       /\ UNCHANGED <<extVars, cfgVars, iteration, searches_used, clarifications_used,
                      clarification_received, execution_result, token_usage,
                      request_counter, continuous_mode, runs, finalized,
                      text_fallback, ledgerVars, schemaVars, proc, tool_input,
                      providerVars>>

CallFileTool ==
    /\ tool_input.name \in FileTools \ {"EditFileTool"}
    /\ ActionPhase("file_tool")

CallEditFileTool ==
    /\ tool_input.name = "EditFileTool"
    /\ ActionPhase("EditFileTool")

CallCommandTool ==
    /\ tool_input.name \in CommandTools
    /\ ActionPhase("command_tool")

ToolNext ==
    \/ CallFileTool
    \/ CallEditFileTool
    \/ CallCommandTool

ToolSpec == ToolInit /\ [][ToolNext]_vars

\* ------------------------------------------- provider decisions on their own
\* Base URLs, as the words of the URL that matter to the detection, written as
\* the caller wrote them.
\* The attribute llm_base_url holds None (neither the caller nor the
\* configuration gave a URL); written as a word that no URL contains.
NoBaseUrl == <<"(None)">>

\* The empty string is the URL without words.
BaseUrls ==
    {<<"openai">>, <<"OpenRouter">>, <<"openrouter", "anthropic">>, <<"cerebras">>,
     <<"anthropic">>, <<"localhost">>, <<"CEREBRAS">>, <<"Api", "OpenAI">>, <<>>,
     NoBaseUrl}

\* str.lower() of one word
lower_word(w) ==
    CASE w = "OpenRouter" -> "openrouter"
      [] w = "CEREBRAS" -> "cerebras"
      [] w = "OpenAI" -> "openai"
      [] w = "Api" -> "api"
      [] OTHER -> w

\* Mutant: the URL is compared as written.
lower_url_as_written(url) == url

\* str.lower()
lower_url(url) == [i \in 1..Len(url) |-> lower_word(url[i])]

\* Mutant: every backend but Cerebras gets the session id.
get_extra_body_with_session(provider) ==
    IF provider = "cerebras" THEN {} ELSE {"litellm_session_id"}

\* BaseAgent._detect_provider_type:
\* `base_url = self.llm_base_url.lower() if self.llm_base_url else ""`
detect_provider_type(url) ==
    LET lowered == IF url = NoBaseUrl \/ url = <<>> THEN <<>> ELSE lower_url(url)
        base_url == {lowered[i] : i \in 1..Len(lowered)}
    IN CASE "cerebras" \in base_url -> "cerebras"
         [] "openrouter" \in base_url -> "openrouter"
         [] "anthropic" \in base_url -> "anthropic"
         [] "openai" \in base_url -> "openai"
         [] OTHER -> "unknown"

\* BaseAgent._get_stream_options (the keys of the dict)
get_stream_options(provider) == {"include_usage"}

\* BaseAgent._get_extra_body (the keys of the dict)
get_extra_body(provider) ==
    IF provider = "openrouter" THEN {"litellm_session_id", "usage"} ELSE {}

\* SGRVampiCodeAgent._prepare_tools: the schemas are stripped for Cerebras.
schema_stripped(provider) == provider = "cerebras"

\* The request built by a phase of the coding agent and sent through the
\* client to the agent's backend; the provider decisions read the identity
\* stored by __init__.
build_request(phase, url, stored_provider) ==
    [phase |-> phase, base_url |-> url, provider |-> stored_provider,
     extra_body |-> get_extra_body(stored_provider),
     stream_options |-> get_stream_options(stored_provider),
     schema_stripped |-> schema_stripped(stored_provider)]

\* BaseAgent.__init__: the provider is detected once, from the URL given.
ProviderInit ==
    /\ ExtIdle
    /\ FreshAgent("coding")
    /\ SchemaIdle
    /\ ToolIdle
    /\ llm_base_url \in BaseUrls
    /\ provider_type = detect_provider_type(llm_base_url)
    /\ request = NoRequest

\* The caller points the agent at another backend between two runs
\* (agent.llm_base_url and agent.openai_client are assigned from outside).
Reconfigure ==
    /\ pc \in {"idle", "done"}
    /\ \E url \in BaseUrls \ {llm_base_url} : llm_base_url' = url
    /\ last' = [op |-> "reconfigure", from |-> state, seq |-> last.seq]
    /\ UNCHANGED <<extVars, cfgVars, ctxVars, dataVars, ctlVars, runs, exit, finalized, raised,
                   text_fallback, ledgerVars, schemaVars, toolVars, provider_type,
                   request>>

\* BaseAgent.execute up to the reasoning request of an iteration.
ProviderExecute ==
    /\ pc \in {"idle", "done"}
    /\ last.seq < MaxCalls
    /\ pc' = "reasoning"
    /\ runs' = runs + 1
    /\ last' = [op |-> "execute", from |-> state, seq |-> last.seq + 1]
    /\ UNCHANGED <<extVars, cfgVars, ctxVars, dataVars, action_tool, exit, finalized, raised,
                   text_fallback, ledgerVars, auxVars>>

\* SGRVampiCodeAgent._reasoning_phase: the request is built and sent.
ReasoningRequest ==
    /\ pc = "reasoning"
    /\ request' = build_request("reasoning", llm_base_url, provider_type)
    /\ pc' = "select"
    /\ UNCHANGED <<extVars, cfgVars, ctxVars, dataVars, action_tool, histVars, ledgerVars,
                   schemaVars, toolVars, llm_base_url, provider_type>>

\* SGRVampiCodeAgent._select_action_phase: the request is built and sent; the
\* run then ends.
SelectRequest ==
    /\ pc = "select"
    /\ request' = build_request("select", llm_base_url, provider_type)
    /\ pc' = "done"
    /\ UNCHANGED <<extVars, cfgVars, ctxVars, dataVars, action_tool, histVars, ledgerVars,
                   schemaVars, toolVars, llm_base_url, provider_type>>

ProviderNext ==
    \/ Reconfigure
    \/ ProviderExecute
    \/ ReasoningRequest
    \/ SelectRequest

ProviderSpec == ProviderInit /\ [][ProviderNext]_vars

\* -------------------------------------- the process-wide prompt configuration
\* PromptLoader.get_system_prompt: the prompt of the file that
\* config.prompts.system_prompt_file names at the call, or an exception when
\* the file cannot be loaded.
PromptLoader_get_system_prompt(file, loads) ==
    IF loads THEN file ELSE "raised"

\* SGRVampiCodeAgent._get_code_system_prompt: the configuration after the call
\* and what the call returns ("raised": the exception of the second load
\* leaves the function).  The assignment that restores the original file is
\* the statement after the load inside the try block.
get_code_system_prompt(config_file, loads, loads_again) ==
    LET original_file == config_file
        prompt == PromptLoader_get_system_prompt(CodePromptFile, loads)
    IN IF prompt # "raised"
       THEN [system_prompt_file |-> original_file, prompt |-> prompt]
       ELSE [system_prompt_file |-> CodePromptFile,
             prompt |-> PromptLoader_get_system_prompt(CodePromptFile, loads_again)]

ConfigInit ==
    /\ FreshAgent("coding")
    /\ SchemaIdle
    /\ ToolIdle
    /\ ProviderIdle
    /\ RetryIdle
    /\ DupIdle
    /\ StreamIdle
    /\ StripIdle
    /\ system_prompt_file \in {DefaultPromptFile, "custom_prompt.txt"}
    /\ system_prompt = [a \in Agents |-> "none"]

\* SGRVampiCodeAgent._prepare_context of one coding agent instance.
CodePrepareContext ==
    /\ last.seq < MaxCalls
    /\ \E a \in {"coder_a", "coder_b"}, loads \in BOOLEAN, loads_again \in BOOLEAN :
           LET r == get_code_system_prompt(system_prompt_file, loads, loads_again)
           IN /\ system_prompt_file' = r.system_prompt_file
              /\ system_prompt' = [system_prompt EXCEPT ![a] = r.prompt]
              /\ last' = [op |-> "prepare_context", from |-> state,
                          seq |-> last.seq + 1, agent |-> a,
                          before |-> system_prompt_file, loads |-> loads]
    /\ UNCHANGED exceptConfig

\* BaseAgent._prepare_context of an agent instance that keeps the configured
\* prompt: it reads the process-wide configuration as it is at the call.
ResearchPrepareContext ==
    /\ last.seq < MaxCalls
    /\ \E loads \in BOOLEAN :
           /\ system_prompt' =
                  [system_prompt EXCEPT
                       !["researcher"] =
                           PromptLoader_get_system_prompt(system_prompt_file, loads)]
           /\ last' = [op |-> "prepare_context", from |-> state,
                       seq |-> last.seq + 1, agent |-> "researcher",
                       before |-> system_prompt_file, loads |-> loads]
    /\ UNCHANGED <<exceptConfig, system_prompt_file>>

ConfigNext == CodePrepareContext \/ ResearchPrepareContext

ConfigSpec == ConfigInit /\ [][ConfigNext]_vars

\* ------------------------------------------ WeatherAPIClient: request with retry
MaxRetries == 2

\* What one attempt of client.request meets.
Responses ==
    {"200_json", "200_not_json", "401", "404", "500", "timeout", "network_error",
     "protocol_error"}

\* The body of the try block of one attempt: "return" or the class of the
\* exception it raises.  NetworkError is the class of this module, the
\* classes with the httpx prefix are those of the HTTP library.
try_body(response) ==
    CASE response = "timeout" -> "httpx.TimeoutException"
      [] response = "network_error" -> "httpx.NetworkError"
      [] response = "protocol_error" -> "httpx.ProtocolError"
      [] response = "401" -> "APIKeyError"
      [] response = "404" -> "InvalidResponseError"
      [] response = "500" -> "NetworkError"
      [] response = "200_not_json" -> "InvalidResponseError"
      [] OTHER -> "return"

\* The except clauses in their order: the exception the clause re-raises, or
\* the one it stores in last_exception.
except_clauses(exc) ==
    CASE exc = "httpx.TimeoutException" -> [reraise |-> FALSE, stored |-> "NetworkError"]
      [] exc = "httpx.NetworkError" -> [reraise |-> FALSE, stored |-> "NetworkError"]
      [] exc = "httpx.HTTPStatusError" -> [reraise |-> FALSE, stored |-> "NetworkError"]
      [] exc \in {"APIKeyError", "InvalidResponseError"} ->
             [reraise |-> TRUE, stored |-> exc]
      [] OTHER -> [reraise |-> FALSE, stored |-> "WeatherAPIError"]

RetryInit ==
    /\ FreshAgent("coding")
    /\ SchemaIdle
    /\ ToolIdle
    /\ ProviderIdle
    /\ ConfigIdle
    /\ DupIdle
    /\ StreamIdle
    /\ StripIdle
    /\ max_retries \in 0..MaxRetries
    /\ attempt = 0
    /\ last_exception = "None"
    /\ responses = <<>>
    /\ retry_result = "none"

\* One turn of `for attempt in range(self.max_retries + 1)`.
Attempt ==
    /\ retry_result = "none"
    /\ attempt <= max_retries
    /\ \E response \in Responses :
           LET exc == try_body(response)
               clause == except_clauses(exc)
           IN /\ responses' = Append(responses, response)
              /\ IF exc = "return"
                 THEN /\ retry_result' = "json"
                      /\ UNCHANGED <<attempt, last_exception>>
                 ELSE IF clause.reraise
                 THEN /\ retry_result' = exc
                      /\ UNCHANGED <<attempt, last_exception>>
                 ELSE /\ last_exception' = clause.stored
                      /\ IF attempt < max_retries
                         THEN /\ attempt' = attempt + 1
                              /\ UNCHANGED retry_result
                         ELSE /\ retry_result' = clause.stored
                              /\ UNCHANGED attempt
    /\ last' = [op |-> "attempt", from |-> state, seq |-> last.seq + 1]
    /\ UNCHANGED <<exceptRetry, max_retries>>

RetryNext == Attempt

RetrySpec == RetryInit /\ [][RetryNext]_vars

\* ------------------------------------------------------------- find_duplicates
\* (fixed_find_duplicates.py and find_duplicates_fixed.py hold the same code)
MaxItems == 3
ItemValues == {1, 2}

\* The call find_duplicates(items): duplicates = [], i = 0.  fd_items, fd_i
\* and fd_j are items, i and j of the code; Python indexes from 0, so
\* items[i] of the code is fd_items[fd_i + 1].
DupInit ==
    /\ FreshAgent("coding")
    /\ SchemaIdle
    /\ ToolIdle
    /\ ProviderIdle
    /\ ConfigIdle
    /\ RetryIdle
    /\ StreamIdle
    /\ StripIdle
    /\ fd_items \in SeqsOf(ItemValues, 0, MaxItems)
    /\ fd_i = 0
    /\ fd_j = 0
    /\ duplicates = <<>>
    /\ returned = FALSE

\* `while i < len(items): j = i + 1`, or `return duplicates`
OuterLoop ==
    /\ ~returned
    /\ fd_j = 0
    /\ IF fd_i < Len(fd_items)
       THEN fd_j' = fd_i + 1 /\ UNCHANGED returned
       ELSE returned' = TRUE /\ UNCHANGED fd_j
    /\ last' = [op |-> "outer", from |-> state, seq |-> last.seq + 1]
    /\ UNCHANGED <<exceptDup, fd_items, fd_i, duplicates>>

\* `while j < len(items): if items[i] == items[j]: duplicates.append(items[i]);
\* j += 1`, or `i += 1` when the inner loop ends
InnerLoop ==
    /\ ~returned
    /\ fd_j > 0
    /\ IF fd_j < Len(fd_items)
       THEN /\ duplicates' = IF fd_items[fd_i + 1] = fd_items[fd_j + 1]
                             THEN Append(duplicates, fd_items[fd_i + 1])
                             ELSE duplicates
            /\ fd_j' = fd_j + 1
            /\ UNCHANGED fd_i
       ELSE /\ fd_i' = fd_i + 1
            /\ fd_j' = 0
            /\ UNCHANGED duplicates
    /\ last' = [op |-> "inner", from |-> state, seq |-> last.seq + 1]
    /\ UNCHANGED <<exceptDup, fd_items, returned>>

DupNext == OuterLoop \/ InnerLoop

DupSpec == DupInit /\ [][DupNext]_vars

\* ------------------------------------------- the usage of one streamed request
MaxChunks == 2
MaxStreamRequests == 2

\* What the terminal completion object carries: no usage, or a usage object
\* with nested reasoning tokens.
CompletionUsages == {NoUsage, BackendUsage("object", 1, "sum")}

\* A streamed fragment: without usage, with the usage as attribute (an
\* object, with or without reasoning tokens), or with the usage as extra
\* field (a dict).
Chunk(place, usage) == [place |-> place, usage |-> usage]

Chunks ==
    {Chunk("none", NoUsage),
     Chunk("attr", BackendUsage("object", 0, "sum")),
     Chunk("attr", BackendUsage("object", 1, "with_thinking")),
     Chunk("extra", BackendUsage("dict_flat", 0, "sum"))}

\* `if hasattr(chunk, 'usage') and chunk.usage: last_chunk_usage = chunk.usage
\*  elif hasattr(chunk, 'model_extra') and chunk.model_extra.get('usage'):
\*      last_chunk_usage = chunk.model_extra['usage']`
scan_chunk(last_usage, chunk) ==
    IF chunk.place = "attr" /\ chunk.usage.present THEN chunk.usage
    ELSE IF chunk.place = "extra" /\ chunk.usage.present THEN chunk.usage
    ELSE last_usage

\* Mutant: the usage of the last fragment is merged besides the one of the
\* completion.
usages_to_merge_both(completion_usage, chunk_usage) ==
    (IF completion_usage.present THEN <<completion_usage>> ELSE <<>>)
        \o (IF chunk_usage.present THEN <<chunk_usage>> ELSE <<>>)

\* `if completion.usage: self.token_usage.add_usage(completion.usage)
\*  elif last_chunk_usage: self.token_usage.add_usage(last_chunk_usage)`:
\* the arguments of the add_usage calls of one request.
usages_to_merge(completion_usage, chunk_usage) ==
    IF completion_usage.present THEN <<completion_usage>>
    ELSE IF chunk_usage.present THEN <<chunk_usage>>
    ELSE <<>>

RECURSIVE add_usages(_, _)
add_usages(tu, usages) ==
    IF usages = <<>> THEN tu
    ELSE add_usages(add_usage(tu, Head(usages)), Tail(usages))

\* usage_for_request of the coding agent: the attributes of completion.usage
\* with the nested reasoning tokens, or `getattr(last_chunk_usage, name, 0) or 0`
\* with "thinking_tokens": 0 (getattr finds no attribute on a dict), or None.
usage_for_request(completion_usage, chunk_usage) ==
    IF completion_usage.present
    THEN [present |-> TRUE,
          prompt_tokens |-> OrZero(completion_usage.prompt_tokens),
          completion_tokens |-> OrZero(completion_usage.completion_tokens),
          total_tokens |-> OrZero(completion_usage.total_tokens),
          thinking_tokens |-> OrZero(completion_usage.reasoning_tokens)]
    ELSE IF chunk_usage.present
    THEN IF chunk_usage.form = "object"
         THEN [present |-> TRUE,
               prompt_tokens |-> OrZero(chunk_usage.prompt_tokens),
               completion_tokens |-> OrZero(chunk_usage.completion_tokens),
               total_tokens |-> OrZero(chunk_usage.total_tokens),
               thinking_tokens |-> 0]
         ELSE [present |-> TRUE, prompt_tokens |-> 0, completion_tokens |-> 0,
               total_tokens |-> 0, thinking_tokens |-> 0]
    ELSE [present |-> FALSE, prompt_tokens |-> 0, completion_tokens |-> 0,
          total_tokens |-> 0, thinking_tokens |-> 0]

\* TokenUsage.add_request_detail with the entry's own usage kept whole.
store_request_detail(tu, request_num, usage) ==
    [tu EXCEPT !.request_details =
        Append(@, [request_num |-> request_num, usage |-> usage])]

StreamInit ==
    /\ \E v \in {"coding", "research"} : FreshAgent(v)
    /\ SchemaIdle
    /\ ToolIdle
    /\ ProviderIdle
    /\ ConfigIdle
    /\ RetryIdle
    /\ DupIdle
    /\ StreamIdle
    /\ StripIdle

\* `async for event in stream: if event.type == "chunk": ...`
StreamChunk ==
    /\ completed.request_num < MaxStreamRequests
    /\ Len(chunks) < MaxChunks
    /\ \E chunk \in Chunks :
           /\ chunks' = Append(chunks, chunk)
           /\ last_chunk_usage' = scan_chunk(last_chunk_usage, chunk)
    /\ last' = [op |-> "chunk", from |-> state, seq |-> last.seq + 1]
    /\ UNCHANGED <<restVars, configVars, retryVars, dupVars, stripVars, completed>>

\* `completion = await stream.get_final_completion()` and what follows it in
\* _reasoning_phase and _select_action_phase: the merge into the ledger and,
\* in the coding agent, the audit entry.  The next request starts with
\* last_chunk_usage = None.
StreamComplete ==
    /\ completed.request_num < MaxStreamRequests
    /\ \E completion_usage \in CompletionUsages :
           LET merged == usages_to_merge(completion_usage, last_chunk_usage)
               ledger == add_usages(token_usage, merged)
           IN /\ token_usage' =
                     IF variant = "coding"
                     THEN store_request_detail(ledger, request_counter + 1,
                              usage_for_request(completion_usage, last_chunk_usage))
                     ELSE ledger
              /\ usage_calls' = usage_calls \o merged
              /\ completed' = [request_num |-> completed.request_num + 1,
                               completion_usage |-> completion_usage,
                               chunks |-> chunks,
                               calls_before |-> Len(usage_calls)]
    /\ request_counter' = IF variant = "coding" THEN request_counter + 1
                          ELSE request_counter
    /\ chunks' = <<>>
    /\ last_chunk_usage' = NoUsage
    /\ last' = [op |-> "completion", from |-> state, seq |-> last.seq + 1]
    /\ UNCHANGED <<cfgVars, ctxVars, conversation, log, continuous_mode, ctlVars,
                   runs, exit, finalized, raised, text_fallback, reported,
                   schemaVars, toolVars, providerVars, configVars, retryVars,
                   dupVars, stripVars>>

StreamNext == StreamChunk \/ StreamComplete

StreamSpec == StreamInit /\ [][StreamNext]_vars

\* ------------------------------------------- schema stripping for Cerebras
MaxDepth == 2

\* unsupported_fields
unsupported_fields ==
    {"minItems", "maxItems", "minLength", "maxLength", "minimum", "maximum",
     "pattern", "format"}

\* Mutant: only the keys of the outermost dict are removed.
strip_shallow(obj) ==
    IF obj.tag = "dict"
    THEN Dict([k \in DOMAIN obj.items \ unsupported_fields |-> obj.items[k]])
    ELSE obj

\* strip_recursive of _strip_unsupported_schema_fields
RECURSIVE strip_recursive(_)
strip_recursive(obj) ==
    IF obj.tag = "dict"
    THEN Dict([k \in DOMAIN obj.items \ unsupported_fields |->
                   strip_recursive(obj.items[k])])
    ELSE IF obj.tag = "list"
    THEN List([n \in 1..Len(obj.elems) |-> strip_recursive(obj.elems[n])])
    ELSE obj

\* SGRVampiCodeAgent._strip_unsupported_schema_fields
strip_unsupported_schema_fields(schema_dict) == strip_recursive(schema_dict)

\* `if self._provider_type == "cerebras": tool_param["function"]["parameters"] =
\*  self._strip_unsupported_schema_fields(...)`: the parameters that are sent.
prepare_tools_parameters(provider, parameters) ==
    IF provider = "cerebras" THEN strip_unsupported_schema_fields(parameters)
    ELSE parameters

\* The nesting depth of a JSON value.
RECURSIVE Depth(_)
Depth(obj) ==
    IF obj.tag = "dict" /\ DOMAIN obj.items # {}
    THEN 1 + Max(0, CHOOSE d \in {Depth(obj.items[k]) : k \in DOMAIN obj.items} :
                        \A k \in DOMAIN obj.items : Depth(obj.items[k]) <= d)
    ELSE IF obj.tag = "list" /\ obj.elems # <<>>
    THEN 1 + Max(0, CHOOSE d \in {Depth(obj.elems[n]) : n \in 1..Len(obj.elems)} :
                        \A n \in 1..Len(obj.elems) : Depth(obj.elems[n]) <= d)
    ELSE 0

\* The schema that pydantic_function_tool generates for a tool class, grown
\* from `{"type": "object"}` by adding keywords and nesting.
StripInit ==
    /\ FreshAgent("coding")
    /\ SchemaIdle
    /\ ToolIdle
    /\ ConfigIdle
    /\ RetryIdle
    /\ DupIdle
    /\ StreamIdle
    /\ llm_base_url \in {<<"cerebras">>, <<"CEREBRAS">>, <<"openai">>, <<"localhost">>}
    /\ provider_type = detect_provider_type(llm_base_url)
    /\ request = NoRequest
    /\ tool_parameters = Dict([k \in {"type"} |-> Leaf("object")])
    /\ sent_parameters = Leaf("none")

\* A field of the tool class adds a keyword to the schema.
AddKeyword ==
    /\ sent_parameters = Leaf("none")
    /\ tool_parameters.tag = "dict"
    /\ \E key \in {"minLength", "description"} \ DOMAIN tool_parameters.items :
           tool_parameters' =
               Dict([k \in DOMAIN tool_parameters.items \cup {key} |->
                        IF k = key THEN Leaf("value") ELSE tool_parameters.items[k]])
    /\ last' = [op |-> "add_keyword", from |-> state, seq |-> last.seq + 1]
    /\ UNCHANGED <<exceptStrip, providerVars, sent_parameters>>

\* The schema becomes the value of a key of an enclosing schema ("properties",
\* or a property that is itself named format), or an element of a list.
Nest ==
    /\ sent_parameters = Leaf("none")
    /\ Depth(tool_parameters) <= MaxDepth
    /\ \/ \E key \in {"properties", "format"} :
              tool_parameters' = Dict([k \in {key} |-> tool_parameters])
       \/ tool_parameters' = List(<<tool_parameters>>)
    /\ last' = [op |-> "nest", from |-> state, seq |-> last.seq + 1]
    /\ UNCHANGED <<exceptStrip, providerVars, sent_parameters>>

\* SGRVampiCodeAgent._prepare_tools
PrepareTools ==
    /\ sent_parameters = Leaf("none")
    /\ tool_parameters.tag = "dict"
    /\ sent_parameters' = prepare_tools_parameters(provider_type, tool_parameters)
    /\ last' = [op |-> "prepare_tools", from |-> state, seq |-> last.seq + 1]
    /\ UNCHANGED <<exceptStrip, providerVars, tool_parameters>>

StripNext == AddKeyword \/ Nest \/ PrepareTools

StripSpec == StripInit /\ [][StripNext]_vars

\* ==================================================================== claims
PhasePcs == {"reasoning", "select", "action"}

\* A step that is a call of the named inbound API.
IsCall(op) == last'.seq # last.seq /\ last'.op = op

\* C1: during one execute() the iteration counter never exceeds
\* max_iterations + 1, whatever tools the model chooses from the offered
\* candidate sets (once iteration >= max_iterations at most one more step runs).
C1_IterationBound ==
    runs <= 1 => iteration <= max_iterations + 1

\* C2: for every agent variant and every iteration count >= max_iterations the
\* candidate set of _prepare_tools holds only final-answer-capable tools.
C2_FinalOnlyAtCap ==
    iteration >= max_iterations => \A n \in prepare_tools : FinalAnswerCapable(n)

\* C3: whenever control leaves execute() (normal exit, exception, cancellation)
\* the lifecycle state is COMPLETED, ERROR or FAILED.
C3_TerminalOnExit ==
    [][(pc = "finally" /\ pc' = "done") => state' \in FINISH_STATES]_vars

\* C4: on every exit from the loop of execute() (normal exit, exception,
\* cancellation) the finalization runs exactly once: one flush of the ledger to
\* the streaming generator and one save of the log; it never runs while the
\* loop is still running.
C4_FinalizationOnce ==
    /\ pc = "done" => finalized = [flushed |-> 1, saved |-> 1]
    /\ pc \in PhasePcs \cup {"loop", "finally"} => finalized = NotFinalized

\* C4 witness: a cancelled run, with a partial log, that was finalized once.
C4_Witness ==
    /\ pc = "done"
    /\ exit = "cancelled"
    /\ Len(log) > 0
    /\ finalized = [flushed |-> 1, saved |-> 1]

\* C5: an exception raised by a phase inside the loop sets the state to FAILED,
\* ends the run (no further phase runs) and is not propagated: execute returns.
C5_ExceptionMeansFailed ==
    raised # "none" =>
        /\ pc \in {"finally", "done"}
        /\ exit = "returned"
        /\ (pc = "finally" \/ last.op = "execute") => state = FAILED

\* C5 witness: the action phase raised, execute returned, the state is FAILED.
C5_Witness ==
    /\ raised = "action"
    /\ pc = "done"
    /\ exit = "returned"
    /\ state = FAILED

C7_TerminalAbsorbing ==
    [][(state \in FINISH_STATES /\ ~IsCall("continue_conversation"))
           => state' = state]_vars

\* C8: execute() moves the state to RESEARCHING before the first iteration, so
\* the state is never INITED during a reasoning, selection or action phase.
C8_NeverInitedInPhases ==
    pc \in PhasePcs => state # INITED

\* C9: while the state is WAITING_FOR_CLARIFICATION and provide_clarification
\* has not been called, no iteration starts, no request is made and no tool runs.
C9_SuspendedWhileWaiting ==
    [][(state = WAITING_FOR_CLARIFICATION /\ ~IsCall("provide_clarification"))
           => /\ iteration' = iteration
              /\ token_usage' = token_usage
              /\ log' = log]_vars

\* C10: provide_clarification called in WAITING_FOR_CLARIFICATION appends
\* exactly one user message at the end of the conversation, adds one to
\* clarifications_used, sets the event and the state RESEARCHING, and leaves the
\* iteration counter, searches_used, the log and the ledger unchanged.
C10_ProvideClarificationFrame ==
    [][(IsCall("provide_clarification") /\ state = WAITING_FOR_CLARIFICATION)
           => /\ Len(conversation') = Len(conversation) + 1
              /\ SubSeq(conversation', 1, Len(conversation)) = conversation
              /\ conversation'[Len(conversation')].role = "user"
              /\ clarifications_used' = clarifications_used + 1
              /\ clarification_received'
              /\ state' = RESEARCHING
              /\ iteration' = iteration
              /\ searches_used' = searches_used
              /\ log' = log
              /\ token_usage' = token_usage
              /\ request_counter' = request_counter]_vars

\* C10 witness: the state right after a clarification supplied while waiting.
C10_Witness ==
    /\ last.op = "provide_clarification"
    /\ last.from = WAITING_FOR_CLARIFICATION
    /\ state = RESEARCHING
    /\ clarifications_used = 1

\* C11: a call of provide_clarification made while the state is not
\* WAITING_FOR_CLARIFICATION is rejected: the conversation, clarifications_used,
\* the clarification event and the state are left unchanged.
C11_MisuseRejected ==
    [][(IsCall("provide_clarification") /\ state # WAITING_FOR_CLARIFICATION)
           => /\ conversation' = conversation
              /\ clarifications_used' = clarifications_used
              /\ clarification_received' = clarification_received
              /\ state' = state]_vars

\* C12: for every agent variant, whenever searches_used >= max_searches the
\* candidate set built for the current step offers no WebSearchTool; the coding
\* agent (max_searches = 0) never offers it.
C12_NoSearchOverBudget ==
    (pc \in {"reasoning", "select"} /\ searches_used >= max_searches)
        => "WebSearchTool" \notin prepare_tools

\* C13: execute() called after continue_conversation does not re-run the
\* initialization: it appends nothing to the conversation (the task message is
\* not appended a second time) and keeps the iteration counter and the ledger.
C13_ResumeWithoutInit ==
    [][(IsCall("execute") /\ last.op = "continue_conversation")
           => /\ conversation' = conversation
              /\ iteration' = iteration
              /\ token_usage' = token_usage]_vars

\* ------------------------------------------------------ truncation claims
HasUser(conv) == \E i \in 1..Len(conv) : conv[i].role = "user"

FirstUser(conv) == conv[Min({i \in 1..Len(conv) : conv[i].role = "user"})]

Occurs(m, conv) == \E i \in 1..Len(conv) : conv[i] = m

\* The last n messages of conv, none for n = 0.
LastN(conv, n) == SubSeq(conv, Len(conv) - n + 1, Len(conv))

IsTruncation == last'.op = "truncate"

\* C14: the first user message of the conversation (the original task) is in
\* the conversation after every truncation, whatever the length was, and it is
\* still the first user message after any further appends and truncations.
C14_FirstUserKept ==
    [][HasUser(conversation)
           => HasUser(conversation')
              /\ FirstUser(conversation') = FirstUser(conversation)]_vars

\* C14 witness: a truncation has cut a conversation whose first user message
\* was neither its first message nor within the most-recent window, and that
\* message now leads the conversation.
C14_Witness ==
    /\ last.op = "truncate"
    /\ Len(last.before) > max_conversation_messages
    /\ HasUser(last.before)
    /\ last.before[1].role # "user"
    /\ ~Occurs(FirstUser(last.before),
               LastN(last.before,
                     recent_messages_count(last.before, max_conversation_messages)))
    /\ conversation[1] = FirstUser(last.before)

\* C15: every message whose content matches the clarification marker before a
\* truncation is still in the conversation after it.
C15_ClarificationsKept ==
    [][IsTruncation
           => \A i \in 1..Len(conversation) :
                  conversation[i].clar => Occurs(conversation[i], conversation')]_vars

\* C16: for every cap >= 1, truncating a conversation longer than cap leaves
\* preserved messages (the first user message, clarification messages), then
\* exactly one notice, then exactly the most recent
\* max(cap - preserved, cap/2) messages in their order, none when that is 0.
C16_RecentWindow ==
    [][(IsTruncation /\ max_conversation_messages >= 1
            /\ Len(conversation) > max_conversation_messages)
           => \E k \in 0..(Len(conversation') - 1) :
                /\ \A i \in 1..k :
                       /\ Occurs(conversation'[i], conversation)
                       /\ \/ conversation'[i].clar
                          \/ conversation'[i] = FirstUser(conversation)
                /\ conversation'[k + 1] = NoticeMsg
                /\ SubSeq(conversation', k + 2, Len(conversation'))
                       = LastN(conversation,
                               Max(max_conversation_messages
                                       - preserve_count(conversation),
                                   max_conversation_messages \div 2))]_vars

\* C17: after _truncate_conversation the conversation holds at most
\* max_conversation_messages messages, so a request of the coding agent carries
\* at most that many conversation messages.
C17_RequestWithinCap ==
    (variant = "coding" /\ pc \in {"reasoning", "select"})
        => Len(conversation) <= max_conversation_messages

\* C18: _truncate_conversation is a no-op (same messages, same order, no
\* notice) on every conversation of length <= max_conversation_messages, an
\* already truncated one included.
C18_NoOpWithinCap ==
    [][(IsTruncation /\ Len(conversation) <= max_conversation_messages)
           => conversation' = conversation]_vars

\* C18 witness: a conversation that was truncated before, is within the cap
\* and exactly as long as the cap, was truncated again and is unchanged.
C18_Witness ==
    /\ last.op = "truncate"
    /\ Occurs(NoticeMsg, last.before)
    /\ Len(last.before) = max_conversation_messages
    /\ conversation = last.before

\* ---------------------------------------------------------- ledger claims
Totals(tu) ==
    [prompt_tokens |-> tu.prompt_tokens, completion_tokens |-> tu.completion_tokens,
     total_tokens |-> tu.total_tokens, thinking_tokens |-> tu.thinking_tokens,
     cached_tokens |-> tu.cached_tokens]

\* The ledger after add_usage was called on calls[order[1]], calls[order[2]], ...
RECURSIVE MergeInOrder(_, _, _)
MergeInOrder(tu, calls, order) ==
    IF order = <<>> THEN tu
    ELSE MergeInOrder(add_usage(tu, calls[Head(order)]), calls, Tail(order))

RECURSIVE SumOver(_, _)
SumOver(f, n) == IF n = 0 THEN 0 ELSE f[n] + SumOver(f, n - 1)

\* What one request reports for each counter (a missing counter counts 0).
Reported(u) ==
    [prompt_tokens |-> OrZero(u.prompt_tokens),
     completion_tokens |-> OrZero(u.completion_tokens),
     total_tokens |-> OrZero(u.total_tokens),
     thinking_tokens |-> OrZero(u.thinking_tokens) + OrZero(u.reasoning_tokens),
     cached_tokens |-> OrZero(u.cached_tokens) + OrZero(u.details_cached_tokens)]

\* C19: the ledger totals are additive and order-independent: merging the
\* usages R1..Rn in any permutation gives the totals the ledger holds, and each
\* total is the sum of the per-request values.
C19_AdditiveAnyOrder ==
    LET n == Len(usage_calls)
    IN /\ \A order \in Permutations(1..n) :
              Totals(MergeInOrder(EmptyTokenUsage, usage_calls, order))
                  = Totals(token_usage)
       /\ \A k \in DOMAIN Totals(token_usage) :
              token_usage[k] = SumOver([i \in 1..n |-> Reported(usage_calls[i])[k]], n)

\* C19 witness: three usages of different shapes with different thinking
\* counts were merged, none of them None.
C19_Witness ==
    /\ Len(usage_calls) >= 3
    /\ \A i \in 1..Len(usage_calls) : usage_calls[i].present
    /\ usage_calls[1].form # usage_calls[2].form
    /\ Reported(usage_calls[1]).thinking_tokens
           # Reported(usage_calls[2]).thinking_tokens
    /\ Reported(usage_calls[3]).thinking_tokens > 0
    /\ token_usage.thinking_tokens > 1

\* C20: if the accumulated total equals prompt + completion while
\* thinking_tokens > 0, to_dict reports prompt + completion + thinking as total;
\* whenever thinking_tokens > 0 the reported total is at least
\* prompt + completion + thinking, and the benchmark runner reading that dict
\* keeps it.
C20_TotalIncludesThinking ==
    (last.op = "to_dict" /\ token_usage.thinking_tokens > 0) =>
        LET sum == token_usage.prompt_tokens + token_usage.completion_tokens
                       + token_usage.thinking_tokens
        IN /\ token_usage.total_tokens
                  = token_usage.prompt_tokens + token_usage.completion_tokens
                  => reported.total_tokens = sum
           /\ reported.total_tokens >= sum
           /\ runner_total_tokens(reported) = reported.total_tokens

\* C20 witness: a ledger with thinking tokens whose total is prompt +
\* completion was summarized, and the reported total includes the thinking tokens.
C20_Witness ==
    /\ last.op = "to_dict"
    /\ token_usage.thinking_tokens > 0
    /\ token_usage.total_tokens
           = token_usage.prompt_tokens + token_usage.completion_tokens
    /\ reported.total_tokens = token_usage.total_tokens + token_usage.thinking_tokens

\* The cost one request's usage reports, None when it reports none.
BackendCost(u) ==
    IF u.cost # None THEN u.cost
    ELSE IF u.model_extra = "cost" THEN u.extra_cost
    ELSE None

\* C21: the cost reported for a run is the backend-reported cost when a request
\* of the run reported one, and otherwise prompt * input_price +
\* (completion + thinking) * output_price, also when the usage reaches the
\* reporting side through the to_dict summary.
C21_CostFallback ==
    (last.op = "to_dict" /\ raised = "none") =>
        LET n == Len(usage_calls)
            costs == [i \in 1..n |-> IF BackendCost(usage_calls[i]) = None THEN 0
                                     ELSE BackendCost(usage_calls[i])]
        IN runner_cost_usd(reported) =
               IF \E i \in 1..n : BackendCost(usage_calls[i]) # None
               THEN SumOver(costs, n)
               ELSE calculate_cost(token_usage.prompt_tokens,
                                   token_usage.completion_tokens
                                       + token_usage.thinking_tokens)

\* C22: add_usage never raises, whatever usage value it is given (None, an
\* object or a dict with fields missing or None, with or without detail
\* structures and extra fields).
C22_AddUsageNeverRaises ==
    raised = "none"

\* The first run of an instance ended after one iteration in COMPLETED.
OneStepCompletion ==
    /\ pc = "done"
    /\ runs = 1
    /\ iteration = 1
    /\ state = COMPLETED
    /\ exit = "returned"
    /\ raised = "none"

\* The model calls of one iteration that store a request in the ledger.
RequestsPerIteration == IF variant = "coding" THEN 2 ELSE 0

PhaseRank(m) ==
    CASE m.kind = "reasoning_call" -> 1
      [] m.kind = "reasoning_result" -> 2
      [] m.kind = "action_call" -> 3
      [] m.kind = "action_result" -> 4
      [] OTHER -> 0

IsPhaseMessage(m) == PhaseRank(m) > 0

\* (it1, rank1) comes strictly before (it2, rank2) in the order by iteration
\* and then by sub-phase; the order is transitive, so it holds for every pair
\* of a sequence when it holds for the neighbours.
PhaseOrdered(it1, rank1, it2, rank2) ==
    \/ it1 < it2
    \/ it1 = it2 /\ rank1 < rank2

\* C24: within one agent instance the ledger updates, the conversation appends
\* and the log entries are ordered by iteration and sub-phase: the step_number
\* never decreases along the log, in one iteration the reasoning entry precedes
\* the tool-execution entry, the phase messages of the conversation follow
\* reasoning call, reasoning result, action call, action result, the stored
\* requests are numbered upwards, and when the action selection or the action
\* phase starts the updates of the reasoning phase of that iteration are in
\* place and no later update of that iteration is.
C24_PhaseOrder ==
    /\ \A i \in 1..(Len(log) - 1) :
           PhaseOrdered(log[i].step_number,
                        IF log[i].step_type = "reasoning" THEN 1 ELSE 2,
                        log[i + 1].step_number,
                        IF log[i + 1].step_type = "reasoning" THEN 1 ELSE 2)
    /\ LET phase_messages == SelectSeq(conversation, IsPhaseMessage)
       IN \A i \in 1..(Len(phase_messages) - 1) :
              PhaseOrdered(phase_messages[i].call, PhaseRank(phase_messages[i]),
                           phase_messages[i + 1].call,
                           PhaseRank(phase_messages[i + 1]))
    /\ \A i \in 1..(Len(token_usage.request_details) - 1) :
           token_usage.request_details[i].request_num
               < token_usage.request_details[i + 1].request_num
    /\ pc \in {"select", "action"} =>
           /\ Len(log) > 0
           /\ log[Len(log)] = LogEntry(iteration, "reasoning")
           /\ \E i \in 1..Len(conversation) :
                  /\ conversation[i].call = iteration
                  /\ PhaseRank(conversation[i]) = IF pc = "select" THEN 2 ELSE 3
           /\ \A i \in 1..Len(conversation) :
                  conversation[i].call = iteration
                      => PhaseRank(conversation[i]) <= IF pc = "select" THEN 2 ELSE 3
    /\ pc = "select" =>
           /\ token_usage.request_details # <<>>
           /\ token_usage.request_details[Len(token_usage.request_details)].request_num
                  = request_counter

C24_Witness ==
    /\ iteration = 2
    /\ Len(log) = 4
    /\ log[4] = LogEntry(2, "tool_execution")
    /\ Len(token_usage.request_details) >= 3
    /\ \E i \in 1..Len(conversation) : conversation[i].kind = "action_result"
                                       /\ conversation[i].call = 2

\* ------------------------------------------------------------ schema claims
\* C25: for every candidate tool set of size N >= 1 the built schema gives each
\* variant one legal discriminant value, equal to the variant's tool name and
\* different from every other variant's, and model_dump of a chosen action
\* yields the variant's own fields and values without the discriminant.
C25_OneDiscriminantPerVariant ==
    schema # EmptyDict =>
        /\ DOMAIN schema = tools_list
        /\ \A c \in tools_list : schema[c] = tool_name(c)
        /\ \A c, d \in tools_list : c # d => schema[c] # schema[d]
        /\ function # NoFunction =>
               DiscriminantToolMixin_model_dump(function) = function.own

\* C26: no serialization of the chosen action that is used for the
\* conversation, the observation or the log contains tool_name_discriminator.
C26_DiscriminantNeverLeaks ==
    \A e \in serialized :
        \A item \in e.items : item[1] # "tool_name_discriminator"

\* C27: a tool class that declares no name is named by the lowercase form of
\* its own type identifier, so two distinct classes of the candidate set of a
\* step have distinct names.
C27_NamesFromOwnIdentifier ==
    schema # EmptyDict =>
        /\ \A c \in tools_list : ClassDeclaredName(c) = "" => tool_name(c) = lower(c)
        /\ \A c, d \in tools_list : c # d => tool_name(c) # tool_name(d)

\* -------------------------------------------------------------- tool claims
ToolOps == {"file_tool", "EditFileTool", "command_tool"}

\* C28: a failing tool is a normal observation: for every tool of coding.py and
\* every input and environment condition (missing file, path that is a
\* directory, non-zero exit code, timeout, I/O error) the tool returns a
\* descriptive string and propagates no exception, so the agent state is not
\* set to FAILED by the failure and the loop continues.
C28_ToolFailureIsObservation ==
    last.op \in ToolOps =>
        /\ raised = "none"
        /\ state # FAILED
        /\ state = last.from
        /\ pc = "loop"
        /\ exit = "none"
        /\ observation.kind \in {"ok", "error"}
        /\ observation.text # "none"
        /\ conversation[Len(conversation)] = Msg("tool", "action_result", iteration, FALSE)
        /\ log[Len(log)] = LogEntry(iteration, "tool_execution")
        /\ (last.op = "EditFileTool" /\ last.before.path \notin {"file", "readonly"})
               => observation.kind = "error"
        /\ (tool_input.name = "RunCommandTool"
                /\ proc \in {"timeout", "timeout_exited", "spawn_error"})
               => observation.kind = "error"

C28_Witness ==
    /\ last.op = "command_tool"
    /\ tool_input.name = "RunCommandTool"
    /\ proc = "timeout_exited"
    /\ observation = [kind |-> "error", text |-> "Error running command"]
    /\ pc = "loop"

\* The positions at which needle occurs in content.
Occurrences(content, needle) ==
    {i \in 1..Len(content) : StartsAt(content, i, needle)}

\* content with the occurrence of needle at position i replaced.
ReplaceAt(content, i, needle, replacement) ==
    SubSeq(content, 1, i - 1) \o replacement
        \o SubSeq(content, i + Len(needle), Len(content))

\* C29: EditFileTool changes the file only when search_text occurs exactly once
\* in it, replacing that one occurrence; when the file is missing, the text is
\* absent or the text occurs more than once, an error string is returned and
\* the file content is left unchanged.
C29_EditExactlyOnce ==
    last.op = "EditFileTool" =>
        LET before == last.before
            occ == Occurrences(before.content, tool_input.search_text)
        IN /\ fs # before =>
                  /\ Cardinality(occ) = 1
                  /\ fs = [before EXCEPT !.content =
                              ReplaceAt(before.content, CHOOSE i \in occ : TRUE,
                                        tool_input.search_text,
                                        tool_input.replace_text)]
           /\ (before.path = "missing" \/ Cardinality(occ) # 1) =>
                  /\ observation.kind = "error"
                  /\ fs = before

\* ---------------------------------------------------------- provider claims
\* C30: at every outbound request the provider identity used for the extra
\* request attributes and for the schema stripping equals the classification
\* of the agent's current llm_base_url, also after the agent was reconfigured
\* with a different backend between runs.
C30_ProviderDecidedFresh ==
    request # NoRequest =>
        LET current == detect_provider_type(request.base_url)
        IN /\ request.provider = current
           /\ request.extra_body = get_extra_body(current)
           /\ request.schema_stripped = schema_stripped(current)

KnownProviders == {"cerebras", "openrouter", "anthropic", "openai"}

\* The URL mentions the provider's name in some letter case.
Mentions(url, name) ==
    url # NoBaseUrl /\ \E i \in 1..Len(url) : lower_word(url[i]) = name

\* C31: provider classification never throws: for every base endpoint value
\* (empty, missing, a string in any letter case) it returns a known identity
\* or "unknown"; an unknown backend gets no extra request attributes and only
\* the openrouter identity gets the session id and the cost request.
C31_ClassificationTotal ==
    /\ raised = "none"
    /\ provider_type \in KnownProviders \cup {"unknown"}
    /\ last.op = "init" =>
           /\ \A name \in KnownProviders :
                  provider_type = name => Mentions(llm_base_url, name)
           /\ provider_type = "unknown" =>
                  \A name \in KnownProviders : ~Mentions(llm_base_url, name)
    /\ request # NoRequest =>
           /\ request.provider = provider_type
           /\ request.provider = "unknown" => request.extra_body = {}
           /\ request.extra_body =
                  IF request.provider = "openrouter"
                  THEN {"litellm_session_id", "usage"} ELSE {}

C31_Witness ==
    /\ request # NoRequest
    /\ request.provider = "unknown"
    /\ request.extra_body = {}
    /\ \E other \in BaseUrls :
           /\ Mentions(other, "cerebras")
           /\ other # lower_url(other)
           /\ detect_provider_type(other) = "cerebras"

\* C32: agent instances share no mutable state: building the request context
\* (_prepare_context / _get_code_system_prompt) leaves the process-wide
\* configuration exactly as it was before the call, when the prompt loads and
\* when loading it fails, so that no instance sees a change made by another.
C32_ConfigurationRestored ==
    /\ last.op = "prepare_context" => system_prompt_file = last.before
    /\ system_prompt["researcher"] \in
           {"none", "raised", DefaultPromptFile, "custom_prompt.txt"}

\* C33: when every one of the max_retries + 1 attempts fails with a server
\* error, a timeout or a network error, the exception raised to the caller is
\* a NetworkError; a 401 or another 4xx response raises APIKeyError or
\* InvalidResponseError at once, with no attempt after it.
C33_ExhaustedRetriesRaiseNetworkError ==
    /\ ( /\ retry_result # "none"
         /\ Len(responses) = max_retries + 1
         /\ \A i \in 1..Len(responses) :
                responses[i] \in {"500", "timeout", "network_error"} )
       => retry_result = "NetworkError"
    /\ \A i \in 1..Len(responses) :
           /\ responses[i] = "401" =>
                  i = Len(responses) /\ retry_result = "APIKeyError"
           /\ responses[i] = "404" =>
                  i = Len(responses) /\ retry_result = "InvalidResponseError"

\* How often x occurs in the list.
CountOf(list, x) == Cardinality({k \in 1..Len(list) : list[k] = x})

\* C34: find_duplicates(items) returns a list in which each duplicated item of
\* the input appears exactly once, also when it occurs three or more times,
\* and in which the items that occur once do not appear.
C34_EachDuplicateOnce ==
    returned =>
        \A x \in ItemValues :
            CountOf(duplicates, x) = IF CountOf(fd_items, x) >= 2 THEN 1 ELSE 0

\* C35: executing a FinalAnswerTool sets the state to the tool's status (one of
\* COMPLETED, FAILED, ERROR) and the execution result to its answer; the loop
\* begins a new iteration if and only if the state is outside FINISH_STATES,
\* so no iteration starts after the one that executed the final answer.
C35_FinalAnswerEndsLoop ==
    [][/\ (pc = "action" /\ pc' = "loop" /\ action_tool.name = "FinalAnswerTool")
           => /\ state' = action_tool.status
              /\ state' \in FINISH_STATES
              /\ execution_result' = action_tool.answer
       /\ iteration' # iteration
           => /\ iteration' = iteration + 1
              /\ pc = "loop"
              /\ state \notin FINISH_STATES
       /\ (pc = "loop" /\ pc' # "loop")
           => /\ state \notin FINISH_STATES <=> pc' = "reasoning"
              /\ state \in FINISH_STATES <=> (pc' = "finally" /\ exit' = "returned")]_vars

\* C35 witness: the second iteration executed a final answer and the loop was
\* left by its condition.
C35_Witness ==
    /\ pc = "finally"
    /\ exit = "returned"
    /\ raised = "none"
    /\ ~text_fallback
    /\ iteration = 2
    /\ state = COMPLETED
    /\ execution_result = "model_answer"

\* The usages that the fragments of a stream carried, in their order.
CarriedUsages(stream) ==
    SelectSeq([k \in 1..Len(stream) |-> stream[k].usage], LAMBDA u : u.present)

\* The sum of one counter over the usages merged so far.
RECURSIVE SumOf(_, _)
SumOf(usages, counter) ==
    IF usages = <<>> THEN 0
    ELSE OrZero(Head(usages)[counter]) + SumOf(Tail(usages), counter)

\* C36: for each completed request its usage is merged into the ledger at
\* most once: from the terminal completion object when that carries usage,
\* otherwise from the last streamed fragment that carried usage, never both.
C36_UsageMergedOnce ==
    /\ token_usage.prompt_tokens = SumOf(usage_calls, "prompt_tokens")
    /\ token_usage.completion_tokens =
           SumOf(usage_calls, "completion_tokens")
    /\ completed.request_num > 0 =>
           LET merged == SubSeq(usage_calls, completed.calls_before + 1,
                                Len(usage_calls))
               carried == CarriedUsages(completed.chunks)
           IN /\ Len(merged) <= 1
              /\ completed.completion_usage.present =>
                     merged = <<completed.completion_usage>>
              /\ (~completed.completion_usage.present /\ carried # <<>>) =>
                     merged = <<carried[Len(carried)]>>
              /\ (~completed.completion_usage.present /\ carried = <<>>) =>
                     merged = <<>>

\* C36 witness: the completion and a fragment both carried usage, and only
\* the completion's was merged.
C36_Witness ==
    /\ completed.request_num > 0
    /\ completed.completion_usage.present
    /\ CarriedUsages(completed.chunks) # <<>>
    /\ Len(usage_calls) = completed.calls_before + 1
    /\ usage_calls[Len(usage_calls)] = completed.completion_usage

\* The sum of one counter over the audit entries' own usage.
RECURSIVE AuditSum(_, _)
AuditSum(details, counter) ==
    IF details = <<>> THEN 0
    ELSE Head(details).usage[counter] + AuditSum(Tail(details), counter)

\* C38: in the coding agent the audit entries are numbered 1, 2, ..., n
\* without gaps, and the sums of prompt_tokens, completion_tokens and
\* thinking_tokens over the entries' own usage equal the ledger's totals,
\* whichever location the usage came from.
C38_AuditMatchesTotals ==
    variant = "coding" =>
        LET details == token_usage.request_details
        IN /\ Len(details) = request_counter
           /\ \A k \in 1..Len(details) : details[k].request_num = k
           /\ token_usage.prompt_tokens = AuditSum(details, "prompt_tokens")
           /\ token_usage.completion_tokens = AuditSum(details, "completion_tokens")
           /\ token_usage.thinking_tokens = AuditSum(details, "thinking_tokens")

\* The kind of the assistant message that holds the call of a tool message.
CallKindOf(kind) ==
    IF kind = "reasoning_result" THEN "reasoning_call" ELSE "action_call"

\* C37: in every reachable state of the coding agent, also right after a
\* truncation, every tool-role message of the conversation is preceded by an
\* assistant message whose tool_calls hold the same tool_call_id.
C37_ToolResultHasItsCall ==
    variant = "coding" =>
        \A k \in 1..Len(conversation) :
            conversation[k].role = "tool" =>
                \E m \in 1..(k - 1) :
                    /\ conversation[m].role = "assistant"
                    /\ conversation[m].kind = CallKindOf(conversation[k].kind)
                    /\ conversation[m].call = conversation[k].call

\* Some dict of the JSON value, at any depth, has an unsupported keyword as key.
RECURSIVE HasUnsupported(_)
HasUnsupported(obj) ==
    IF obj.tag = "dict"
    THEN \/ DOMAIN obj.items \cap unsupported_fields # {}
         \/ \E k \in DOMAIN obj.items : HasUnsupported(obj.items[k])
    ELSE IF obj.tag = "list"
    THEN \E n \in 1..Len(obj.elems) : HasUnsupported(obj.elems[n])
    ELSE FALSE

====
